---- MODULE Spec2Model ----
(***************************************************************************)
(* Real-time audio orchestration of the ThirdEye video chat application:   *)
(* ordered TTS delivery (App.streamTextToVoice), gapless playback          *)
(* scheduling (AudioStreamer, AudioController), the buffered-turn capture  *)
(* with its silence detector (VoiceRecorder) and the duplex session bridge *)
(* (useLiveAPI).  Each subsystem has its own specification over its own    *)
(* variables; the variables of the other subsystems stay at their initial  *)
(* values.                                                                 *)
(***************************************************************************)
EXTENDS Integers, Sequences, FiniteSets, TLC

VARIABLES
    \* ---- App: ordered TTS delivery --------------------------------------
    isTTSEnabled,   \* React state isTTSEnabled
    nStreams,       \* number of streamTextToVoice invocations so far
    stream,         \* per invocation: its locals and the values it closed over
    links,          \* per invocation: the continuations chained on ttsChainRef
    handed,         \* history of audioPlayer.queue calls
    playing,        \* units held by the player since its last stop()
    \* ---- AudioStreamer / AudioController: gapless playback ---------------
    clock,          \* AudioContext.currentTime of the output context
    ctxState,       \* AudioStreamer.audioContext.state
    nextStartTime,  \* AudioStreamer.nextStartTime
    scheduledSources, \* AudioStreamer.scheduledSources, as indices into frames
    resuming,       \* addPCMChunk calls suspended in audioContext.resume()
    frames,         \* every source started by the streamer so far
    stopAt,         \* clock of the last stop() if nothing was scheduled since, else -1
    rejected,       \* addPCMChunk calls that ended with their promise rejected
    ctlNextStartTime, \* AudioController.nextStartTime
    ctlFrames,      \* every source started by the controller so far
    \* ---- VoiceRecorder driven by App.toggleRecording ----------------------
    now,            \* Date.now(), in ms since the model's start
    nAdvances,      \* how often the time has advanced
    isRecording,    \* React state isRecording (isRecordingRef follows it)
    nStarts,        \* number of VoiceRecorder.start() calls so far
    rec,            \* per start() call: its MediaRecorder, stream and polling loop
    curMR,          \* VoiceRecorder.mediaRecorder: the start() that made it, 0 for null
    curStream,      \* VoiceRecorder.stream: the start() that opened it, 0 for null
    lastSoundTime,  \* VoiceRecorder.lastSoundTime
    lastLoudAt,     \* time of the last above-threshold reading, -1 if none
    vr,             \* VoiceRecorder: recognition, finalTranscript, chunks
    \* ---- useLiveAPI: the duplex session bridge ----------------------------
    connected,      \* React state connected
    sessionRef,     \* sessionRef.current: the session it holds, 0 for null
    recorderRef,    \* recorderRef.current: the recorder it holds, 0 for null
    nSessions,      \* number of connect() calls so far
    sess,           \* per connect() call: the session it created
    rcd,            \* per connect() call: the AudioRecorder it created
    handlers,       \* onmessage calls that carried a tool call
    nHandlers,      \* how many of them so far
    sent,           \* history of sendToolResponse calls
    hist,           \* the last of connect()/disconnect() called, and whether an event followed
    \* PCM transcoding
    codec,          \* one sample on its way through encode and decode
    \* ---- CookMode: the duplex screen and its camera -----------------------
    cook            \* the component: its state, its effects' closures, its camera streams

ttsVars == <<isTTSEnabled, nStreams, stream, links, handed, playing>>

schedVars == <<clock, ctxState, nextStartTime, scheduledSources, resuming, frames, stopAt, rejected,
               ctlNextStartTime, ctlFrames>>

voiceVars == <<now, nAdvances, isRecording, nStarts, rec, curMR, curStream, lastSoundTime,
               lastLoudAt, vr>>

liveVars == <<connected, sessionRef, recorderRef, nSessions, sess, rcd, handlers, nHandlers,
              sent, hist>>

codecVars == <<codec>>

cookVars == <<cook>>

vars == <<ttsVars, schedVars, voiceVars, liveVars, codecVars, cookVars>>

nonTTSVars == <<schedVars, voiceVars, liveVars, codecVars, cookVars>>

nonSchedVars == <<ttsVars, voiceVars, liveVars, codecVars, cookVars>>

nonVoiceVars ==
    <<isTTSEnabled, nStreams, stream, links, handed, schedVars, liveVars, codecVars, cookVars>>

\* cleanup() stops the streamer, a new audio payload reaches addPCMChunk
outsideLiveVars == <<ttsVars, voiceVars, clock, ctxState, ctlNextStartTime, ctlFrames, codecVars>>

nonLiveVars == <<outsideLiveVars, cookVars>>

(***************************************************************************)
(* Bounds                                                                  *)
(***************************************************************************)
MaxChunks == 3     \* text chunks delivered, over all streams
MaxUnits  == 3     \* synthesis requests issued, over all streams

(***************************************************************************)
(* Text.  A string is a sequence of characters.  "U+1F600" stands for      *)
(* any code point of the emoji class removed before synthesis.             *)
(***************************************************************************)
Chunks == { <<"a", ".", " ">>, <<"b">>, <<"U+1F600">> }

IsBoundary(c) == c \in {".", "!", "?", "\n"}
IsSpace(c)    == c \in {" ", "\n"}
IsDot(c)      == c # "\n"
IsEmoji(c)    == c = "U+1F600"

MatchEndGreedy(buf) ==
    LET ok(k) == /\ \A j \in 1..(k - 1) : IsDot(buf[j])
                 /\ IsBoundary(buf[k])
                 /\ (k = Len(buf) \/ IsSpace(buf[k + 1]))
        cand  == { k \in 2..Len(buf) : ok(k) }
    IN  IF cand = {} THEN 0 ELSE CHOOSE k \in cand : \A m \in cand : k >= m

\* /^(.+?([.!?\n]))(\s+|$)/ : the end position of group 1, or 0 for no match.
\* The lazy .+? takes the least k >= 2 with buf[1..k-1] free of newlines,
\* buf[k] a boundary character and whitespace or the end of input after it.
MatchEnd(buf) ==
    LET ok(k) == /\ \A j \in 1..(k - 1) : IsDot(buf[j])
                 /\ IsBoundary(buf[k])
                 /\ (k = Len(buf) \/ IsSpace(buf[k + 1]))
        cand  == { k \in 2..Len(buf) : ok(k) }
    IN  IF cand = {} THEN 0 ELSE CHOOSE k \in cand : \A m \in cand : k <= m

SeparatorKept(buf, k) == 0

\* Length of group 3: the maximal run of whitespace that follows position k.
RECURSIVE SeparatorLen(_, _)
SeparatorLen(buf, k) ==
    IF k < Len(buf) /\ IsSpace(buf[k + 1]) THEN 1 + SeparatorLen(buf, k + 1) ELSE 0

\* sentence.replace(/[emoji]/gu, '')
RECURSIVE StripEmoji(_)
StripEmoji(s) ==
    IF s = <<>> THEN <<>>
    ELSE IF IsEmoji(Head(s)) THEN StripEmoji(Tail(s))
         ELSE <<Head(s)>> \o StripEmoji(Tail(s))

\* textForTTS.trim() is a non-empty string
TrimNonEmpty(s) == \E j \in 1..Len(s) : ~IsSpace(s[j])

\* The while loop of streamTextToVoice over one buffer: the texts passed to
\* generateTTS, in order, the buffer left over, and for every iteration the
\* buffer it found, the lengths of match[1] and match[3], and the texts it
\* passed on.
RECURSIVE ExtractUnits(_)
ExtractUnits(buf) ==
    LET k == MatchEnd(buf) IN
    IF k = 0 THEN [units |-> <<>>, rest |-> buf, steps |-> <<>>]
    ELSE LET sentence   == SubSeq(buf, 1, k)
             sepLen     == SeparatorLen(buf, k)
             textForTTS == StripEmoji(sentence)
             unit       == IF TrimNonEmpty(textForTTS) THEN <<textForTTS>> ELSE <<>>
             after      == ExtractUnits(SubSeq(buf, k + sepLen + 1, Len(buf)))
         IN  [units |-> unit \o after.units,
              rest  |-> after.rest,
              steps |-> <<[buf |-> buf, sentence |-> k, separator |-> sepLen,
                           unit |-> unit]>> \o after.steps]

FlushDropped(buf) == <<>>

\* The final flush: the remaining buffer as one more unit, or none.
FlushUnits(buf) ==
    IF TrimNonEmpty(buf) /\ TrimNonEmpty(StripEmoji(buf)) THEN <<StripEmoji(buf)>> ELSE <<>>

(***************************************************************************)
(* Ordered TTS delivery: App.streamTextToVoice and the isTTSEnabled state  *)
(***************************************************************************)
\* A response stream and the one that follows it.
StreamIds == {1, 2}

\* got is the history of the chunks the stream yielded, shown the argument
\* of the last onTextUpdate call, result the value returned.
NoStream ==
    [phase |-> "idle", captured |-> FALSE, fullText |-> <<>>, sentenceBuffer |-> <<>>,
     shown |-> <<>>, nChunks |-> 0, offSeen |-> FALSE, got |-> <<>>, result |-> <<>>]

\* One continuation chained on ttsChainRef.current together with the
\* synthesis request started for it.
NewLink(text) ==
    [text |-> text, fetch |-> "pending", pc |-> "chained", early |-> FALSE, threw |-> FALSE]

RECURSIVE NewLinks(_)
NewLinks(units) ==
    IF units = <<>> THEN <<>> ELSE <<NewLink(Head(units))>> \o NewLinks(Tail(units))

\* generateTTS: the inline data of the response, undefined when the response
\* carries none or when the request throws (the error is caught and logged).
generateTTS(outcome) == IF outcome = "data" THEN "audio" ELSE "none"

FetchOutcomes == {"data", "nodata", "error"}

VoiceFlagCurrent(s) == isTTSEnabled

\* isTTSEnabled as read inside a running streamTextToVoice: the constant of
\* the render whose closure was called.
VoiceFlagSeenBy(s) == stream[s].captured

ChainPredIgnored(s, i) == TRUE

\* ttsChainRef.current.then(...): the callback of link i runs once the promise
\* it was chained on has settled; the first link of a stream is chained on
\* the Promise.resolve() the stream installed.
ChainPredSettled(s, i) ==
    IF i = 1 THEN TRUE ELSE links[s][i - 1].pc \in {"done", "rejected"}

\* then() without a rejection handler: a rejected predecessor rejects the
\* derived promise and the callback does not run.
ThenRun(s, i) ==
    IF i > 1 /\ links[s][i - 1].pc = "rejected" THEN "rejected" ELSE "run"

LinkSettleNoCatch(outcome) == IF outcome = "throw" THEN "rejected" ELSE "done"

\* try { ... } catch (e) { console.error(...) }: the async callback returns
\* normally whatever happened inside.
LinkSettle(outcome) == "done"

\* audioPlayerRef.current.queue(audio)
PlayerQueue(s, i) ==
    /\ handed' = Append(handed, [s |-> s, i |-> i, cur |-> nStreams,
                                 voice |-> isTTSEnabled, afterOff |-> stream[s].offSeen])
    /\ playing' = Append(playing, <<s, i>>)

\* audioPlayerRef.current.stop()
PlayerStop == playing' = <<>>

\* Synthesis requests issued and text chunks delivered so far, over all streams.
UnitsIssued == Len(links[1]) + Len(links[2])

ChunksDelivered == stream[1].nChunks + stream[2].nChunks

StartStream ==
    /\ nStreams + 1 \in StreamIds
    /\ IF nStreams = 0 THEN TRUE ELSE stream[nStreams].phase = "returned"
    /\ nStreams' = nStreams + 1
    /\ stream' = [stream EXCEPT ![nStreams + 1] =
                     [NoStream EXCEPT !.phase = "reading", !.captured = isTTSEnabled]]
    /\ IF isTTSEnabled THEN PlayerStop ELSE UNCHANGED playing
    /\ UNCHANGED <<isTTSEnabled, links, handed>>
    /\ UNCHANGED nonTTSVars

DisplayedWhenVoiceOn(s, fullText) ==
    IF stream[s].captured THEN fullText ELSE stream[s].shown

\* onTextUpdate(fullText): what the display holds after the call
DisplayedText(s, fullText) == fullText

TextChunk(s, textChunk) ==
    /\ s = nStreams
    /\ stream[s].phase = "reading"
    /\ ChunksDelivered < MaxChunks
    /\ LET fullText == stream[s].fullText \o textChunk
           ex == ExtractUnits(stream[s].sentenceBuffer \o textChunk)
       IN  IF VoiceFlagSeenBy(s)
           THEN /\ UnitsIssued + Len(ex.units) <= MaxUnits
                /\ stream' = [stream EXCEPT ![s].fullText = fullText,
                                            ![s].shown = DisplayedText(s, fullText),
                                            ![s].nChunks = @ + 1,
                                            ![s].got = Append(@, textChunk),
                                            ![s].sentenceBuffer = ex.rest]
                /\ links' = [links EXCEPT ![s] = @ \o NewLinks(ex.units)]
           ELSE /\ stream' = [stream EXCEPT ![s].fullText = fullText,
                                            ![s].shown = DisplayedText(s, fullText),
                                            ![s].nChunks = @ + 1,
                                            ![s].got = Append(@, textChunk)]
                /\ UNCHANGED links
    /\ UNCHANGED <<isTTSEnabled, nStreams, handed, playing>>
    /\ UNCHANGED nonTTSVars

StreamEnd(s) ==
    /\ s = nStreams
    /\ stream[s].phase = "reading"
    /\ stream' = [stream EXCEPT ![s].phase = "returned", ![s].result = stream[s].fullText]
    /\ IF VoiceFlagSeenBy(s)
       THEN /\ UnitsIssued + Len(FlushUnits(stream[s].sentenceBuffer)) <= MaxUnits
            /\ links' = [links EXCEPT ![s] = @ \o NewLinks(FlushUnits(stream[s].sentenceBuffer))]
       ELSE UNCHANGED links
    /\ UNCHANGED <<isTTSEnabled, nStreams, handed, playing>>
    /\ UNCHANGED nonTTSVars

FetchSettle(s, i, outcome) ==
    /\ i \in 1..Len(links[s])
    /\ links[s][i].fetch = "pending"
    /\ links' = [links EXCEPT ![s][i].fetch = generateTTS(outcome),
                              ![s][i].early = \E j \in 1..(i - 1) : links[s][j].fetch = "pending"]
    /\ UNCHANGED <<isTTSEnabled, nStreams, stream, handed, playing>>
    /\ UNCHANGED nonTTSVars

\* The callback chained for link i, from its start to its first suspension
\* that another party ends: it awaits the synthesis request, then either
\* hands the audio to the player and awaits that, or falls through.
LinkRun(s, i) ==
    /\ i \in 1..Len(links[s])
    /\ links[s][i].pc = "chained"
    /\ ChainPredSettled(s, i)
    /\ IF ThenRun(s, i) = "rejected"
       THEN /\ links' = [links EXCEPT ![s][i].pc = "rejected"]
            /\ UNCHANGED <<handed, playing>>
       ELSE /\ links[s][i].fetch # "pending"
            /\ IF links[s][i].fetch = "audio" /\ VoiceFlagSeenBy(s)
               THEN /\ PlayerQueue(s, i)
                    /\ links' = [links EXCEPT ![s][i].pc = "awaitQueue"]
               ELSE /\ links' = [links EXCEPT ![s][i].pc = LinkSettle("ok")]
                    /\ UNCHANGED <<handed, playing>>
    /\ UNCHANGED <<isTTSEnabled, nStreams, stream>>
    /\ UNCHANGED nonTTSVars

QueueSettle(s, i, outcome) ==
    /\ i \in 1..Len(links[s])
    /\ links[s][i].pc = "awaitQueue"
    /\ links' = [links EXCEPT ![s][i].pc = LinkSettle(outcome),
                              ![s][i].threw = (outcome = "throw")]
    /\ UNCHANGED <<isTTSEnabled, nStreams, stream, handed, playing>>
    /\ UNCHANGED nonTTSVars

\* onClick={() => setIsTTSEnabled(!isTTSEnabled)} and the effect on the state
ToggleTTS ==
    /\ isTTSEnabled' = ~isTTSEnabled
    /\ IF isTTSEnabled THEN PlayerStop ELSE UNCHANGED playing
    /\ stream' = [s \in StreamIds |->
                    IF isTTSEnabled /\ s = nStreams /\ stream[s].phase = "reading"
                    THEN [stream[s] EXCEPT !.offSeen = TRUE] ELSE stream[s]]
    /\ UNCHANGED <<nStreams, links, handed>>
    /\ UNCHANGED nonTTSVars

InitTTS ==
    /\ isTTSEnabled = TRUE
    /\ nStreams = 0
    /\ stream = [s \in StreamIds |-> NoStream]
    /\ links = [s \in StreamIds |-> <<>>]
    /\ handed = <<>>
    /\ playing = <<>>

\* The chunks "Hello there! ", "How are ", "you?" of a response.
ExampleChunks ==
    << <<"H", "e", "l", "l", "o", " ", "t", "h", "e", "r", "e", "!", " ">>,
       <<"H", "o", "w", " ", "a", "r", "e", " ">>,
       <<"y", "o", "u", "?">> >>

\* Response streams made of the example's chunks, in any order, with the
\* voice flag left on.
NextExtract ==
    \/ StartStream
    \/ \E s \in StreamIds, k \in DOMAIN ExampleChunks : TextChunk(s, ExampleChunks[k])
    \/ \E s \in StreamIds : StreamEnd(s)
    \/ \E s \in StreamIds, i \in 1..MaxUnits, o \in FetchOutcomes : FetchSettle(s, i, o)
    \/ \E s \in StreamIds, i \in 1..MaxUnits : LinkRun(s, i)
    \/ \E s \in StreamIds, i \in 1..MaxUnits, o \in {"ok", "throw"} : QueueSettle(s, i, o)

MaxChunkLen == 2    \* characters in one chunk of SplitChunks

SplitAlphabet == {"a", ".", " ", "\n", "U+1F600"}

\* Text chunks of up to MaxChunkLen characters, line breaks and emoji
\* included
SplitChunks == UNION { [1..n -> SplitAlphabet] : n \in 1..MaxChunkLen }

\* Response streams of arbitrary short chunks: the reading of the stream and
\* the extraction of the units alone.
NextSplit ==
    \/ StartStream
    \/ \E s \in StreamIds, c \in SplitChunks : TextChunk(s, c)
    \/ \E s \in StreamIds : StreamEnd(s)

NextTTS ==
    \/ StartStream
    \/ \E s \in StreamIds, c \in Chunks : TextChunk(s, c)
    \/ \E s \in StreamIds : StreamEnd(s)
    \/ \E s \in StreamIds, i \in 1..MaxUnits, o \in FetchOutcomes : FetchSettle(s, i, o)
    \/ \E s \in StreamIds, i \in 1..MaxUnits : LinkRun(s, i)
    \/ \E s \in StreamIds, i \in 1..MaxUnits, o \in {"ok", "throw"} : QueueSettle(s, i, o)
    \/ ToggleTTS

(***************************************************************************)
(* Gapless playback: AudioStreamer (duplex mode) and AudioController       *)
(***************************************************************************)
MaxClock  == 3     \* clock readings 0..MaxClock
MaxFrames == 4     \* chunks handed to the two schedulers together

\* buffer.duration of the decoded chunks, in clock units
Durations == {1, 2}

Max(a, b) == IF a >= b THEN a ELSE b

StartTimeIgnoresNext(currentTime, next) == currentTime

\* const startTime = Math.max(currentTime, this.nextStartTime)
StartTime(currentTime, next) == Max(currentTime, next)

ControllerStartTimeChained(currentTime, next) == next

\* the same line of AudioController.queueAudio
ControllerStartTime(currentTime, next) == Max(currentTime, next)

StopKeepsNextStartTime == nextStartTime

\* this.nextStartTime = 0 in AudioStreamer.stop()
StopNextStartTime == 0

NextStartFromZero(startTime, d) == d

\* this.nextStartTime = startTime + audioBuffer.duration
NextStartAfter(startTime, d) == startTime + d

\* A payload is given by the duration of the buffer it decodes to; this one
\* stands for a payload that has no decoding.
Undecodable == -1

Payloads == Durations \cup {Undecodable}

DecodesAnything(p) == TRUE

\* convertPCMToAudioBuffer(base64Chunk) returns a buffer: new Int16Array(
\* bytes.buffer) throws for an odd number of bytes, and the promise of
\* addPCMChunk is rejected.
Decodes(p) == p # Undecodable

\* The fields of the streamer that scheduling a chunk touches.
StreamerNow ==
    [frames |-> frames, nextStartTime |-> nextStartTime,
     scheduledSources |-> scheduledSources, stopAt |-> stopAt, rejected |-> rejected]

\* addPCMChunk from the decoded buffer on, applied to the fields st: create
\* the source, start it at startTime, advance nextStartTime, push the
\* source.  c is the call: the duration of its chunk, its number in the
\* order of the calls (rx), whether it waited for resume(), and whether
\* stop() ran while it waited.
Scheduled(st, c) ==
    IF ~Decodes(c.dur) THEN [st EXCEPT !.rejected = @ + 1] ELSE
    LET startTime == StartTime(clock, st.nextStartTime) IN
    [frames |-> Append(st.frames, [start |-> startTime, dur |-> c.dur, at |-> clock,
                                   halted |-> FALSE, first |-> st.stopAt >= 0,
                                   rx |-> c.rx, waited |-> c.waited,
                                   stopped |-> c.stopped]),
     nextStartTime |-> NextStartAfter(startTime, c.dur),
     scheduledSources |-> Append(st.scheduledSources, Len(st.frames) + 1),
     stopAt |-> -1,
     rejected |-> st.rejected]

\* The calls cs go on, one after the other, from the fields st.
RECURSIVE ScheduledAll(_, _)
ScheduledAll(st, cs) ==
    IF cs = <<>> THEN st ELSE ScheduledAll(Scheduled(st, Head(cs)), Tail(cs))

\* The streamer's fields become st.
StreamerBecomes(st) ==
    /\ frames' = st.frames
    /\ nextStartTime' = st.nextStartTime
    /\ scheduledSources' = st.scheduledSources
    /\ stopAt' = st.stopAt
    /\ rejected' = st.rejected

\* The calls of addPCMChunk made so far
CallsMade == Len(frames) + Len(resuming) + rejected

ScheduleChunk(d) ==
    StreamerBecomes(Scheduled(StreamerNow,
                              [dur |-> d, rx |-> CallsMade + 1, waited |-> FALSE,
                               stopped |-> FALSE]))

ChunksReceived == Len(frames) + Len(resuming) + rejected + Len(ctlFrames)

RECURSIVE Reverse(_)
Reverse(q) == IF q = <<>> THEN <<>> ELSE Append(Reverse(Tail(q)), Head(q))

ResumedLastFirst(q) == Reverse(q)

\* The order in which the calls waiting in resume() go on: the context
\* resolves its pending resume promises in the order of the calls.
Resumed(q) == q

\* The output clock advances.
Tick ==
    /\ clock < MaxClock
    /\ clock' = clock + 1
    /\ UNCHANGED <<ctxState, nextStartTime, scheduledSources, resuming, frames, stopAt, rejected,
                   ctlNextStartTime, ctlFrames>>
    /\ UNCHANGED nonSchedVars

\* addPCMChunk(base64Chunk): with a suspended context the call waits for
\* resume(); otherwise decoding needs no other party and the chunk is
\* scheduled before anything else runs.
AddPCMChunkEffect(d) ==
    IF ctxState = "suspended"
    THEN /\ resuming' = Append(resuming, [dur |-> d, rx |-> CallsMade + 1, waited |-> TRUE,
                                          stopped |-> FALSE])
         /\ UNCHANGED <<nextStartTime, scheduledSources, frames, stopAt, rejected>>
    ELSE /\ ScheduleChunk(d)
         /\ UNCHANGED resuming

AddPCMChunk(d) ==
    /\ ChunksReceived < MaxFrames
    /\ AddPCMChunkEffect(d)
    /\ UNCHANGED <<clock, ctxState, ctlNextStartTime, ctlFrames>>
    /\ UNCHANGED nonSchedVars

\* The context starts running: the resume() promises of all waiting calls
\* are resolved in the same task, and the calls go on to decode and
\* schedule their chunks before any other task runs.
ResumeSettleEffect ==
    /\ resuming # <<>>
    /\ ctxState' = "running"
    /\ resuming' = <<>>
    /\ StreamerBecomes(ScheduledAll(StreamerNow, Resumed(resuming)))
    /\ UNCHANGED <<clock, ctlNextStartTime, ctlFrames>>

ResumeSettle ==
    /\ ResumeSettleEffect
    /\ UNCHANGED nonSchedVars

\* stop() runs while the calls q wait in resume(): it does not touch them.
StopSeen(q) == [i \in DOMAIN q |-> [q[i] EXCEPT !.stopped = TRUE]]

\* AudioStreamer.stop()
StreamerStopEffect ==
    /\ resuming' = StopSeen(resuming)
    /\ frames' = [k \in DOMAIN frames |->
                    IF \E p \in DOMAIN scheduledSources : scheduledSources[p] = k
                    THEN [frames[k] EXCEPT !.halted = TRUE] ELSE frames[k]]
    /\ scheduledSources' = <<>>
    /\ nextStartTime' = StopNextStartTime
    /\ stopAt' = clock
    /\ UNCHANGED rejected

StreamerStop ==
    /\ StreamerStopEffect
    /\ UNCHANGED <<clock, ctxState, ctlNextStartTime, ctlFrames>>
    /\ UNCHANGED nonSchedVars

\* AudioController.queueAudio(buffer), reached from playAudioChunk
QueueAudio(d) ==
    /\ ChunksReceived < MaxFrames
    /\ LET startTime == ControllerStartTime(clock, ctlNextStartTime) IN
       /\ ctlFrames' = Append(ctlFrames, [start |-> startTime, dur |-> d, at |-> clock])
       /\ ctlNextStartTime' = startTime + d
    /\ UNCHANGED <<clock, ctxState, nextStartTime, scheduledSources, resuming, frames, stopAt, rejected>>
    /\ UNCHANGED nonSchedVars

InitSched ==
    /\ clock = 0
    /\ ctxState \in {"suspended", "running"}
    /\ nextStartTime = 0
    /\ scheduledSources = <<>>
    /\ resuming = <<>>
    /\ frames = <<>>
    /\ stopAt = -1
    /\ rejected = 0
    /\ ctlNextStartTime = 0
    /\ ctlFrames = <<>>

NextSched ==
    \/ Tick
    \/ \E d \in Durations : AddPCMChunk(d)
    \/ ResumeSettle
    \/ StreamerStop
    \/ \E d \in Durations : QueueAudio(d)

(***************************************************************************)
(* Buffered-turn capture: VoiceRecorder and its silence detector, driven   *)
(* by App.toggleRecording                                                  *)
(***************************************************************************)
MaxStarts   == 2     \* VoiceRecorder.start() calls
MaxAdvances == 3     \* advances of the wall clock

\* private silenceDuration = 1500
SilenceDuration == 1500

\* Time that passes between two observations of Date.now(), in ms.
Advances == {800}

StartIds == 1..MaxStarts

\* heard is what the recognition engine recognised as final during the
\* capture, blob the clip built in onstop, given the arguments of the
\* completion callback calls made for the capture; stopAsked tells that
\* stop() was called while the capture's start() awaited the microphone.
NoRec ==
    [pc |-> "idle", mr |-> "none", stopEv |-> "none", streamLive |-> FALSE,
     loop |-> "none", fired |-> 0, startedAt |-> -1, stopped |-> FALSE,
     tickedAfterStop |-> FALSE, firedAfterStop |-> FALSE, firedEarly |-> FALSE,
     heard |-> <<>>, blob |-> <<>>, given |-> <<>>, stopAsked |-> FALSE]

MaxResults == 1     \* final results of the recognition engine

\* event.results[i][0].transcript of a final result
Transcripts == { <<" ">>, <<" ", "h", "i", " ">> }

\* "🎤 Audio Message"
Placeholder == <<"U+1F3A4", " ", "A", "u", "d", "i", "o">>

MimeType == "audio/webm"

\* The fields of the VoiceRecorder that start() and the events share.
\* recognition is "unmade" before the constructor ran, "none" without a
\* SpeechRecognition implementation; listener is the start() call that
\* started the recognition; chunks names the captures whose data it holds.
NoVoiceRecorder ==
    [recognition |-> "unmade", listener |-> 0, finalTranscript |-> <<>>, chunks |-> <<>>,
     nResults |-> 0]

RECURSIVE TrimStart(_)
TrimStart(s) == IF s # <<>> /\ Head(s) = " " THEN TrimStart(Tail(s)) ELSE s

RECURSIVE TrimEnd(_)
TrimEnd(s) ==
    IF s # <<>> /\ s[Len(s)] = " " THEN TrimEnd(SubSeq(s, 1, Len(s) - 1)) ELSE s

\* String.prototype.trim
Trim(s) == TrimEnd(TrimStart(s))

\* this.finalTranscript.trim() || "🎤 Audio Message"
TranscriptOrPlaceholder(ft) == IF Trim(ft) = <<>> THEN Placeholder ELSE Trim(ft)

\* this.recognition.stop() inside VoiceRecorder.stop()
StopRecognition(v) ==
    IF v.recognition = "started" THEN [v EXCEPT !.recognition = "idle"] ELSE v

\* if (this.recognition) { ...; this.recognition.start(); } in start() call k
StartRecognition(v, k) ==
    IF v.recognition = "idle" THEN [v EXCEPT !.recognition = "started", !.listener = k]
    ELSE v

\* VoiceRecorder.stop() applied to the records r with this.mediaRecorder = m:
\* MediaRecorder.stop() makes the state inactive at once and queues the stop
\* event.
StopRec(r, m) ==
    IF m # 0 /\ r[m].mr = "recording"
    THEN [r EXCEPT ![m].mr = "inactive", ![m].stopEv = "pending", ![m].stopped = TRUE]
    ELSE r

\* if (!this.analyser || !this.mediaRecorder || this.mediaRecorder.state === 'inactive') return;
\* this.analyser is set before the first call and never cleared.
LoopGuardReturns(r, m) == m = 0 \/ r[m].mr = "inactive"

AfterFireKeepsPolling == "scheduled"

\* if (this.onSilenceCallback) this.onSilenceCallback(); return;
AfterFire == "ended"

\* Date.now() - this.lastSoundTime > this.silenceDuration
SilenceReached(t, last) == t - last > SilenceDuration

\* One call of checkSilence by the loop of start() k, on the records r with
\* this.mediaRecorder = m; loud tells whether the reading is above the
\* threshold.  The silence callback is App's: it stops the recorder when
\* isRecordingRef.current is set.
CheckSilence(k, loud, r, m, v) ==
    IF LoopGuardReturns(r, m)
    THEN /\ rec' = [r EXCEPT ![k].loop = "ended"]
         /\ vr' = v
         /\ UNCHANGED <<lastSoundTime, lastLoudAt, isRecording>>
    ELSE LET last      == IF loud THEN now ELSE lastSoundTime
             loudAt    == IF loud THEN now ELSE lastLoudAt
             quietFrom == Max(loudAt, r[k].startedAt)
             ticked    == [r EXCEPT ![k].tickedAfterStop = @ \/ r[k].stopped]
         IN  /\ lastSoundTime' = last
             /\ lastLoudAt' = loudAt
             /\ IF SilenceReached(now, last)
                THEN LET fired == [ticked EXCEPT
                                     ![k].fired = IF @ < 2 THEN @ + 1 ELSE @,
                                     ![k].loop = AfterFire,
                                     ![k].firedAfterStop = @ \/ r[k].stopped,
                                     ![k].firedEarly = @ \/ (now - quietFrom < SilenceDuration)]
                     IN  IF isRecording
                         THEN /\ isRecording' = FALSE
                              /\ rec' = StopRec(fired, m)
                              /\ vr' = StopRecognition(v)
                         ELSE /\ rec' = fired
                              /\ vr' = v
                              /\ UNCHANGED isRecording
                ELSE /\ rec' = [ticked EXCEPT ![k].loop = "scheduled"]
                     /\ vr' = v
                     /\ UNCHANGED isRecording

AdvanceTime(d) ==
    /\ nAdvances < MaxAdvances
    /\ nAdvances' = nAdvances + 1
    /\ now' = now + d
    /\ UNCHANGED <<isRecording, nStarts, rec, curMR, curStream, lastSoundTime, lastLoudAt, vr>>
    /\ UNCHANGED <<playing, nonVoiceVars>>

\* stop() is called: the start() calls that await the microphone
StopAsked(r) ==
    [j \in StartIds |->
        IF r[j].pc = "awaitMedia" THEN [r[j] EXCEPT !.stopAsked = TRUE] ELSE r[j]]

\* toggleRecording while isRecording: setIsRecording(false); recorder.stop()
ToggleRecordingOff ==
    /\ isRecording
    /\ PlayerStop
    /\ isRecording' = FALSE
    /\ rec' = StopRec(StopAsked(rec), curMR)
    /\ vr' = StopRecognition(vr)
    /\ UNCHANGED <<now, nAdvances, nStarts, curMR, curStream, lastSoundTime, lastLoudAt>>
    /\ UNCHANGED nonVoiceVars

\* new VoiceRecorder(): the constructor makes the recognition object when
\* the browser has an implementation.
NewVoiceRecorder(hasSpeechRecognition) ==
    /\ vr.recognition = "unmade"
    /\ vr' = [vr EXCEPT !.recognition = IF hasSpeechRecognition THEN "idle" ELSE "none"]
    /\ UNCHANGED <<now, nAdvances, isRecording, nStarts, rec, curMR, curStream,
                   lastSoundTime, lastLoudAt>>
    /\ UNCHANGED <<playing, nonVoiceVars>>

\* toggleRecording while not recording: setIsRecording(true) and start() up
\* to its await of getUserMedia
ToggleRecordingOn ==
    /\ vr.recognition # "unmade"
    /\ ~isRecording
    /\ nStarts < MaxStarts
    /\ PlayerStop
    /\ isRecording' = TRUE
    /\ nStarts' = nStarts + 1
    /\ rec' = [rec EXCEPT ![nStarts + 1].pc = "awaitMedia"]
    /\ vr' = [vr EXCEPT !.chunks = <<>>, !.finalTranscript = <<>>]
    /\ lastSoundTime' = now
    /\ UNCHANGED <<now, nAdvances, curMR, curStream, lastLoudAt>>
    /\ UNCHANGED nonVoiceVars

\* getUserMedia fulfils: start() creates and starts the MediaRecorder and
\* calls startSilenceDetection, whose first checkSilence runs at once.
MediaGranted(k, loud) ==
    /\ rec[k].pc = "awaitMedia"
    /\ curStream' = k
    /\ curMR' = k
    /\ CheckSilence(k, loud,
                    [rec EXCEPT ![k].pc = "started", ![k].mr = "recording",
                                ![k].streamLive = TRUE, ![k].startedAt = now],
                    k, StartRecognition(vr, k))
    /\ UNCHANGED <<now, nAdvances, nStarts>>
    /\ UNCHANGED <<playing, nonVoiceVars>>

\* getUserMedia rejects: start() rethrows and toggleRecording resets the state.
MediaDenied(k) ==
    /\ rec[k].pc = "awaitMedia"
    /\ rec' = [rec EXCEPT ![k].pc = "failed"]
    /\ isRecording' = FALSE
    /\ UNCHANGED <<now, nAdvances, nStarts, curMR, curStream, lastSoundTime, lastLoudAt, vr>>
    /\ UNCHANGED <<playing, nonVoiceVars>>

\* The animation frame callback of the loop that start() k began.
RafTick(k, loud) ==
    /\ rec[k].loop = "scheduled"
    /\ CheckSilence(k, loud, rec, curMR, vr)
    /\ UNCHANGED <<now, nAdvances, nStarts, curMR, curStream>>
    /\ UNCHANGED <<playing, nonVoiceVars>>

\* The task that MediaRecorder.stop() queued for the recorder of start() k:
\* ondataavailable pushes the recorded data to this.chunks, then onstop runs:
\* cleanup() stops the tracks of this.stream and closes the audio context,
\* and the clip is built from this.chunks and read.
MRStopEvent(k) ==
    /\ rec[k].stopEv = "pending"
    /\ vr' = [vr EXCEPT !.chunks = Append(@, k)]
    /\ rec' = [j \in StartIds |->
                 IF j = k /\ j = curStream
                 THEN [rec[j] EXCEPT !.stopEv = "reading", !.streamLive = FALSE,
                                     !.blob = vr'.chunks]
                 ELSE IF j = k THEN [rec[j] EXCEPT !.stopEv = "reading", !.blob = vr'.chunks]
                 ELSE IF j = curStream THEN [rec[j] EXCEPT !.streamLive = FALSE]
                 ELSE rec[j]]
    /\ UNCHANGED <<now, nAdvances, isRecording, nStarts, curMR, curStream, lastSoundTime,
                   lastLoudAt>>
    /\ UNCHANGED <<playing, nonVoiceVars>>

\* reader.onloadend: the completion callback, which in App sends the clip
\* and calls setIsRecording(false).
ClipLoaded(k) ==
    /\ rec[k].stopEv = "reading"
    /\ rec' = [rec EXCEPT ![k].stopEv = "delivered",
                          ![k].given = Append(@, [base64 |-> rec[k].blob,
                                                  mimeType |-> MimeType,
                                                  transcript |->
                                                      TranscriptOrPlaceholder(vr.finalTranscript)])]
    /\ isRecording' = FALSE
    /\ UNCHANGED <<now, nAdvances, nStarts, curMR, curStream, lastSoundTime, lastLoudAt, vr>>
    /\ UNCHANGED <<playing, nonVoiceVars>>

\* recognition.onresult with one final result
RecognitionResult(text) ==
    /\ vr.recognition = "started"
    /\ vr.nResults < MaxResults
    /\ vr' = [vr EXCEPT !.finalTranscript = @ \o text, !.nResults = @ + 1]
    /\ rec' = [rec EXCEPT ![vr.listener].heard = @ \o text]
    /\ UNCHANGED <<now, nAdvances, isRecording, nStarts, curMR, curStream, lastSoundTime,
                   lastLoudAt>>
    /\ UNCHANGED <<playing, nonVoiceVars>>

InitVoice ==
    /\ now = 0
    /\ nAdvances = 0
    /\ isRecording = FALSE
    /\ nStarts = 0
    /\ rec = [k \in StartIds |-> NoRec]
    /\ curMR = 0
    /\ curStream = 0
    /\ lastSoundTime = 0
    /\ lastLoudAt = -1
    /\ vr = NoVoiceRecorder

\* The buffered-turn capture with its transcription, without the passing of
\* time.
NextClip ==
    \/ \E has \in BOOLEAN : NewVoiceRecorder(has)
    \/ ToggleRecordingOff
    \/ ToggleRecordingOn
    \/ \E k \in StartIds, loud \in BOOLEAN : MediaGranted(k, loud)
    \/ \E k \in StartIds : MediaDenied(k)
    \/ \E k \in StartIds : MRStopEvent(k)
    \/ \E k \in StartIds : ClipLoaded(k)
    \/ \E text \in Transcripts : RecognitionResult(text)

NextVoice ==
    \/ \E has \in BOOLEAN : NewVoiceRecorder(has)
    \/ \E d \in Advances : AdvanceTime(d)
    \/ ToggleRecordingOff
    \/ ToggleRecordingOn
    \/ \E k \in StartIds, loud \in BOOLEAN : MediaGranted(k, loud)
    \/ \E k \in StartIds : MediaDenied(k)
    \/ \E k \in StartIds, loud \in BOOLEAN : RafTick(k, loud)
    \/ \E k \in StartIds : MRStopEvent(k)
    \/ \E k \in StartIds : ClipLoaded(k)

(***************************************************************************)
(* Duplex session bridge: useLiveAPI                                       *)
(***************************************************************************)
MaxCalls == 2        \* function calls in one tool-call request
MaxLiveAudio == 1    \* inbound messages that carry audio
MaxSessionAudio == 2 \* the same where the audio is looked at alone
MaxRelayed == 2      \* outbound media frames, sent or chained
MaxPayloads == 3     \* inbound audio payloads, decodable or not
MaxLiveClock == 1    \* clock readings while payloads arrive

SessionIds == {1, 2}     \* the sessions that connect() creates, in order
HandlerIds == {1}        \* the inbound messages that carry a tool call

\* The functionRegistry given to connect(): the names it has an action for.
Registry == {"flipCamera"}

\* One function call of a request: its name and what the registered action
\* does when invoked: return, throw, or return a promise that settles later.
CallKinds ==
    { [name |-> "flipCamera", does |-> "ok"],
      [name |-> "flipCamera", does |-> "throw"],
      [name |-> "flipCamera", does |-> "async"],
      [name |-> "other", does |-> "ok"] }

\* msg.toolCall.functionCalls of one message
ToolCalls == UNION { [1..k -> CallKinds] : k \in 1..MaxCalls }

\* What a send to the session object may do: return or throw.
SendOutcomes == {"ok", "throw"}

\* The media that the bridge relays, by the mimeType of the message.
AudioMedia == "audio/pcm;rate=16000"
VideoMedia == "image/jpeg"

\* closes counts the close() calls that disconnect() made or chained for the
\* session; rxs names the addPCMChunk calls made for its audio payloads;
\* queued holds the media of the send callbacks chained on the session
\* promise while it is pending.
NoSession ==
    [state |-> "none", closePending |-> FALSE, closeReq |-> FALSE, erred |-> FALSE,
     closes |-> 0, rxs |-> {}, queued |-> <<>>]

\* An AudioRecorder.  Every start() call is a coroutine, named by the session
\* whose onopen made the call, and so are the audio context and the
\* microphone stream that the call creates.  ctx, mic and node are the fields
\* audioContext, mediaStream and workletNode/sourceNode (0 for null).
\* cancelled names the start() calls that were suspended when stop() ran.
NoRecorder ==
    [made |-> FALSE, co |-> [k \in SessionIds |-> "none"],
     ctx |-> 0, mic |-> 0, node |-> 0,
     open |-> {}, loaded |-> {}, liveMics |-> {}, connectedNodes |-> {}, graphs |-> {},
     cancelled |-> {}]

\* The start() calls of recorder x that are suspended in an await.
Suspended(x) == {k \in SessionIds : x.co[k] \in {"awaitModule", "awaitMic"}}

\* The worklet of some start() call of recorder x delivers microphone data:
\* its node is connected, its context is open and its tracks are live.
Capturing(x) ==
    \E g \in x.graphs : g.co \in x.connectedNodes /\ g.ctx \in x.open /\ g.co \in x.liveMics

\* AudioRecorder.start() up to its first await
RecorderStart(x, k) ==
    [x EXCEPT !.ctx = k, !.open = @ \cup {k}, !.co[k] = "awaitModule"]

NoHandler == [sess |-> 0, calls |-> <<>>, idx |-> 1, responses |-> <<>>, outs |-> <<>>,
              pc |-> "none"]

\* const func = functionRegistry?.[fc.name]; if (func)
Registered(name) == name \in Registry

\* functionResponses.push({id, name, response}) after func() returned or threw
PushResponse(n, h, outcome) ==
    [h EXCEPT !.responses = Append(@, [id |-> <<n, h.idx>>, name |-> h.calls[h.idx].name,
                                       result |-> IF outcome = "ok" THEN "success"
                                                  ELSE "error"]),
              !.outs = Append(@, outcome),
              !.idx = @ + 1]

\* The for loop over the function calls from position h.idx on, up to the
\* first action whose promise is still pending.
RECURSIVE RunCalls(_, _)
RunCalls(n, h) ==
    IF h.idx > Len(h.calls) THEN h
    ELSE LET fc == h.calls[h.idx] IN
         IF ~Registered(fc.name)
         THEN RunCalls(n, [h EXCEPT !.idx = @ + 1, !.outs = Append(@, "none")])
         ELSE IF fc.does = "async" THEN [h EXCEPT !.pc = "awaitFunc"]
         ELSE RunCalls(n, PushResponse(n, h, fc.does))

\* sessionRef.current?.then(session => session.sendToolResponse(...)): the
\* session the responses go to, 0 when the ref holds none.
ResponseTarget(h) == sessionRef

\* The handler of message n runs on from the record h: to its next
\* suspension, or to the end of the loop and the sending of the responses.
HandlerProgress(n, h) ==
    LET r == RunCalls(n, h) IN
    IF r.pc = "awaitFunc"
    THEN /\ handlers' = [handlers EXCEPT ![n] = r]
         /\ UNCHANGED sent
    ELSE /\ handlers' = [handlers EXCEPT ![n] = [r EXCEPT !.pc = "done"]]
         /\ IF Len(r.responses) > 0 /\ ResponseTarget(r) # 0
            THEN \E o \in SendOutcomes :
                    sent' = Append(sent, [to |-> ResponseTarget(r), from |-> n,
                                          functionResponses |-> r.responses,
                                          kind |-> "toolResponse", outcome |-> o])
            ELSE sent' = sent

\* AudioRecorder.stop()
RecorderStop(x) ==
    [x EXCEPT !.liveMics = @ \ {x.mic}, !.mic = 0,
              !.connectedNodes = @ \ {x.node}, !.node = 0,
              !.open = @ \ {x.ctx}, !.ctx = 0,
              !.cancelled = @ \cup Suspended(x)]

\* An event other than a connect() or disconnect() call happened.
Later(h) == [h EXCEPT !.later = TRUE]

\* cleanup()
Cleanup ==
    /\ rcd' = IF recorderRef # 0
              THEN [rcd EXCEPT ![recorderRef] = RecorderStop(@)] ELSE rcd
    /\ StreamerStopEffect
    /\ sessionRef' = 0
    /\ connected' = FALSE

ConnectEffect ==
    /\ hist' = [call |-> "connect", later |-> FALSE]
    /\ nSessions + 1 \in SessionIds
    /\ nSessions' = nSessions + 1
    /\ recorderRef' = nSessions + 1
    /\ rcd' = [rcd EXCEPT ![nSessions + 1].made = TRUE]
    /\ sess' = [sess EXCEPT ![nSessions + 1].state = "connecting"]
    /\ sessionRef' = nSessions + 1
    /\ UNCHANGED <<connected, handlers, nHandlers, sent>>
    /\ UNCHANGED <<nextStartTime, scheduledSources, resuming, frames, stopAt, rejected, outsideLiveVars>>

\* connect() called by itself
Connect == ConnectEffect /\ UNCHANGED cookVars

\* disconnect(): close() is requested once the session promise has
\* fulfilled, then cleanup()
DisconnectEffect ==
    /\ hist' = [call |-> "disconnect", later |-> FALSE]
    /\ sess' = IF sessionRef = 0 THEN sess
               ELSE IF sess[sessionRef].state = "open"
                    THEN [sess EXCEPT ![sessionRef].closeReq = TRUE,
                                      ![sessionRef].closes = @ + 1]
               ELSE IF sess[sessionRef].state = "connecting"
                    THEN [sess EXCEPT ![sessionRef].closePending = TRUE,
                                      ![sessionRef].closes = @ + 1]
               ELSE [sess EXCEPT ![sessionRef].closes = @ + 1]
    /\ Cleanup
    /\ UNCHANGED <<recorderRef, nSessions, handlers, nHandlers, sent>>
    /\ UNCHANGED outsideLiveVars

\* disconnect() called by itself
Disconnect == DisconnectEffect /\ UNCHANGED cookVars

\* session.sendRealtimeInput({ media: { mimeType, data } }) on session id,
\* made by recorder `from` (0 for the video loop), as it is kept in sent
Frame(id, from, media, outcome) ==
    [to |-> id, from |-> from, functionResponses |-> <<>>, kind |-> media,
     outcome |-> outcome]

\* The send callbacks chained on the promise of session id run, in the order
\* they were chained, when the promise fulfils.
RECURSIVE Flushed(_, _, _)
Flushed(id, q, outcome) ==
    IF q = <<>> THEN <<>>
    ELSE <<Frame(id, q[1].from, q[1].media, outcome)>> \o Flushed(id, Tail(q), outcome)

\* callbacks.onopen of session id; the callbacks chained on the session
\* promise run when the promise fulfils: first the sends, then a close() that
\* disconnect() chained.
OnOpen(id) ==
    /\ hist' = Later(hist)
    /\ sess[id].state = "connecting"
    /\ sess' = [sess EXCEPT ![id].state = "open", ![id].closeReq = sess[id].closePending,
                            ![id].queued = <<>>]
    /\ \E o \in SendOutcomes : sent' = sent \o Flushed(id, sess[id].queued, o)
    /\ connected' = TRUE
    /\ rcd' = IF recorderRef # 0
              THEN [rcd EXCEPT ![recorderRef] = RecorderStart(@, id)] ELSE rcd
    /\ UNCHANGED <<sessionRef, recorderRef, nSessions, handlers, nHandlers>>
    /\ UNCHANGED <<nextStartTime, scheduledSources, resuming, frames, stopAt, rejected, nonLiveVars>>

\* start() call k of recorder r resumes after addModule: with the context
\* field cleared in the meantime it returns, otherwise it asks for the
\* microphone.
RecorderModuleLoaded(r, k) ==
    /\ hist' = Later(hist)
    /\ rcd[r].co[k] = "awaitModule"
    /\ rcd' = [rcd EXCEPT ![r].loaded = @ \cup {k},
                          ![r].co[k] = IF rcd[r].ctx = 0 THEN "returned" ELSE "awaitMic"]
    /\ UNCHANGED <<connected, sessionRef, recorderRef, nSessions, sess, handlers, nHandlers,
                   sent>>
    /\ UNCHANGED <<nextStartTime, scheduledSources, resuming, frames, stopAt, rejected, nonLiveVars>>

\* start() call k of recorder r resumes after getUserMedia fulfilled: the
\* stream is stored; with the context field cleared its tracks are stopped
\* and the call returns; otherwise the source and the worklet node are made
\* on the context the field holds (the constructor throws when that context
\* has not loaded the processor) and connected.
RecorderMicGranted(r, k) ==
    /\ hist' = Later(hist)
    /\ rcd[r].co[k] = "awaitMic"
    /\ rcd' = [rcd EXCEPT ![r] =
                 IF @.ctx = 0
                 THEN [@ EXCEPT !.mic = k, !.co[k] = "returned"]
                 ELSE IF @.ctx \notin @.loaded
                 THEN [@ EXCEPT !.mic = k, !.liveMics = @ \cup {k}, !.co[k] = "failed"]
                 ELSE [@ EXCEPT !.mic = k, !.liveMics = @ \cup {k}, !.node = k,
                                !.connectedNodes = @ \cup {k},
                                !.graphs = @ \cup {[co |-> k, ctx |-> rcd[r].ctx]},
                                !.co[k] = "done"]]
    /\ UNCHANGED <<connected, sessionRef, recorderRef, nSessions, sess, handlers, nHandlers,
                   sent>>
    /\ UNCHANGED <<nextStartTime, scheduledSources, resuming, frames, stopAt, rejected, nonLiveVars>>

MicDeniedGoesOn(x, k) ==
    [x EXCEPT !.node = k, !.connectedNodes = @ \cup {k},
              !.graphs = @ \cup {[co |-> k, ctx |-> x.ctx]}, !.co[k] = "denied"]

\* catch (e) { console.error(...); throw e; }: the call ends rejected, none
\* of the statements after the try block runs
MicDenied(x, k) == [x EXCEPT !.co[k] = "denied"]

\* getUserMedia rejects inside start() call k of recorder r: start() rethrows
RecorderMicDenied(r, k) ==
    /\ hist' = Later(hist)
    /\ rcd[r].co[k] = "awaitMic"
    /\ rcd' = [rcd EXCEPT ![r] = MicDenied(@, k)]
    /\ UNCHANGED <<connected, sessionRef, recorderRef, nSessions, sess, handlers, nHandlers,
                   sent>>
    /\ UNCHANGED <<nextStartTime, scheduledSources, resuming, frames, stopAt, rejected, nonLiveVars>>

RelayOpenUntilFailure ==
    sessionRef # 0 /\ \A m \in DOMAIN sent : sent[m].outcome # "throw"

\* if (sessionRef.current)
RelayOpen == sessionRef # 0

\* sessionRef.current.then(session => { try { session.sendRealtimeInput(...) }
\* catch (e) { console.error(...) } }): on a pending promise the callback is
\* chained, on a fulfilled one it runs at once; what the send throws is
\* logged.
Relay(from, media, outcome) ==
    /\ RelayOpen
    /\ IF sess[sessionRef].state = "connecting"
       THEN /\ sess' = [sess EXCEPT ![sessionRef].queued =
                                        Append(@, [from |-> from, media |-> media])]
            /\ UNCHANGED sent
       ELSE /\ sent' = Append(sent, Frame(sessionRef, from, media, outcome))
            /\ UNCHANGED sess

\* The worklet of recorder r posts a buffer and the recorder calls
\* onAudioData, the callback that connect() gave it.
AudioFrame(r, outcome) ==
    /\ hist' = Later(hist)
    /\ Capturing(rcd[r])
    /\ Relay(r, AudioMedia, outcome)
    /\ UNCHANGED <<connected, sessionRef, recorderRef, nSessions, rcd, handlers, nHandlers>>
    /\ UNCHANGED <<nextStartTime, scheduledSources, resuming, frames, stopAt, rejected, nonLiveVars>>

\* The interval that CookMode's effect sets while connected is true fires
\* and calls sendVideoFrame with the snapshot.
VideoFrame(outcome) ==
    /\ hist' = Later(hist)
    /\ connected
    /\ Relay(0, VideoMedia, outcome)
    /\ UNCHANGED <<connected, sessionRef, recorderRef, nSessions, rcd, handlers, nHandlers>>
    /\ UNCHANGED <<nextStartTime, scheduledSources, resuming, frames, stopAt, rejected, nonLiveVars>>

\* callbacks.onmessage of session id: an audio payload of duration audio (0
\* for none) and the function calls of a tool call (empty for none)
OnMessage(id, audio, calls) ==
    /\ hist' = Later(hist)
    /\ sess[id].state = "open"
    /\ ~sess[id].closeReq
    /\ audio # 0 \/ calls # <<>>
    /\ IF audio # 0
       THEN /\ AddPCMChunkEffect(audio)
            /\ sess' = [sess EXCEPT ![id].rxs = @ \cup {CallsMade + 1}]
       ELSE UNCHANGED <<nextStartTime, scheduledSources, resuming, frames, stopAt, rejected, sess>>
    /\ IF calls # <<>>
       THEN /\ nHandlers + 1 \in HandlerIds
            /\ nHandlers' = nHandlers + 1
            /\ HandlerProgress(nHandlers + 1,
                               [NoHandler EXCEPT !.sess = id, !.calls = calls, !.pc = "running"])
       ELSE UNCHANGED <<handlers, nHandlers, sent>>
    /\ UNCHANGED <<connected, sessionRef, recorderRef, nSessions, rcd>>
    /\ UNCHANGED nonLiveVars

\* The resume() awaited by an addPCMChunk call that onmessage made fulfils.
LiveResumeSettle ==
    /\ hist' = Later(hist)
    /\ ResumeSettleEffect
    /\ UNCHANGED <<connected, sessionRef, recorderRef, nSessions, sess, rcd, handlers,
                   nHandlers, sent>>
    /\ UNCHANGED <<ttsVars, voiceVars, codecVars, cookVars>>

\* The output clock advances while the bridge is in use.
LiveTick ==
    /\ Tick
    /\ clock < MaxLiveClock

\* The promise of the action that handler n awaits settles.
FuncSettle(n, outcome) ==
    /\ hist' = Later(hist)
    /\ handlers[n].pc = "awaitFunc"
    /\ HandlerProgress(n, PushResponse(n, [handlers[n] EXCEPT !.pc = "running"], outcome))
    /\ UNCHANGED <<connected, sessionRef, recorderRef, nSessions, sess, rcd, nHandlers>>
    /\ UNCHANGED <<nextStartTime, scheduledSources, resuming, frames, stopAt, rejected, nonLiveVars>>

\* callbacks.onclose of session id
OnClose(id) ==
    /\ hist' = Later(hist)
    /\ sess[id].state \in {"connecting", "open"}
    /\ sess' = [sess EXCEPT ![id].state = "closed"]
    /\ Cleanup
    /\ UNCHANGED <<recorderRef, nSessions, handlers, nHandlers, sent>>
    /\ UNCHANGED nonLiveVars

\* callbacks.onerror of session id
OnError(id) ==
    /\ hist' = Later(hist)
    /\ sess[id].state \in {"connecting", "open"}
    /\ ~sess[id].erred
    /\ sess' = [sess EXCEPT ![id].erred = TRUE]
    /\ Cleanup
    /\ UNCHANGED <<recorderRef, nSessions, handlers, nHandlers, sent>>
    /\ UNCHANGED nonLiveVars

InitLive ==
    /\ connected = FALSE
    /\ sessionRef = 0
    /\ recorderRef = 0
    /\ nSessions = 0
    /\ sess = [id \in SessionIds |-> NoSession]
    /\ rcd = [id \in SessionIds |-> NoRecorder]
    /\ handlers = [n \in HandlerIds |-> NoHandler]
    /\ nHandlers = 0
    /\ sent = <<>>
    /\ hist = [call |-> "none", later |-> FALSE]

\* The session's life cycle with its capture and its inbound audio.
NextLive ==
    \/ Connect
    \/ Disconnect
    \/ \E id \in SessionIds : OnOpen(id)
    \/ \E r, k \in SessionIds : RecorderModuleLoaded(r, k)
    \/ \E r, k \in SessionIds : RecorderMicGranted(r, k)
    \/ \E r, k \in SessionIds : RecorderMicDenied(r, k)
    \/ \E id \in SessionIds, audio \in Durations :
          ChunksReceived < MaxLiveAudio /\ OnMessage(id, audio, <<>>)
    \/ LiveResumeSettle
    \/ \E id \in SessionIds : OnClose(id)
    \/ \E id \in SessionIds : OnError(id)

\* The session's life cycle with its inbound audio alone.
NextLiveAudio ==
    \/ Connect
    \/ Disconnect
    \/ \E id \in SessionIds : OnOpen(id)
    \/ \E id \in SessionIds, audio \in Durations :
          ChunksReceived < MaxSessionAudio /\ OnMessage(id, audio, <<>>)
    \/ LiveResumeSettle
    \/ \E id \in SessionIds : OnClose(id)
    \/ \E id \in SessionIds : OnError(id)

\* The session's life cycle with its inbound audio payloads, decodable or
\* not.
NextLiveDecode ==
    \/ Connect
    \/ Disconnect
    \/ \E id \in SessionIds : OnOpen(id)
    \/ \E id \in SessionIds, audio \in Payloads :
          ChunksReceived < MaxPayloads /\ OnMessage(id, audio, <<>>)
    \/ LiveResumeSettle
    \/ LiveTick

\* The session's life cycle with its inbound tool calls.
NextLiveTools ==
    \/ Connect
    \/ Disconnect
    \/ \E id \in SessionIds : OnOpen(id)
    \/ \E id \in SessionIds, calls \in ToolCalls : OnMessage(id, 0, calls)
    \/ \E n \in HandlerIds, outcome \in {"ok", "throw"} : FuncSettle(n, outcome)
    \/ \E id \in SessionIds : OnClose(id)
    \/ \E id \in SessionIds : OnError(id)

\* The media frames relayed so far, sent or chained.
RECURSIVE QueuedUpTo(_)
QueuedUpTo(id) == IF id = 0 THEN 0 ELSE Len(sess[id].queued) + QueuedUpTo(id - 1)

FramesRelayed ==
    Cardinality({m \in DOMAIN sent : sent[m].kind # "toolResponse"}) + QueuedUpTo(nSessions)

\* The requests of one synchronous call of a registered action.
PlainToolCalls == { <<c>> : c \in {k \in CallKinds : k.name \in Registry /\ k.does = "ok"} }

\* The session's life cycle with its capture and its outbound media.
NextRelay ==
    \/ Connect
    \/ Disconnect
    \/ \E id \in SessionIds : OnOpen(id)
    \/ \E r, k \in SessionIds : RecorderModuleLoaded(r, k)
    \/ \E r, k \in SessionIds : RecorderMicGranted(r, k)
    \/ \E r \in SessionIds, o \in SendOutcomes :
          FramesRelayed < MaxRelayed /\ AudioFrame(r, o)
    \/ \E o \in SendOutcomes : FramesRelayed < MaxRelayed /\ VideoFrame(o)
    \/ \E id \in SessionIds : OnClose(id)
    \/ \E id \in SessionIds : OnError(id)

\* The session's life cycle with all its outbound sends: media and tool
\* responses.
NextRelayTools ==
    \/ Connect
    \/ Disconnect
    \/ \E id \in SessionIds : OnOpen(id)
    \/ \E r, k \in SessionIds : RecorderModuleLoaded(r, k)
    \/ \E r, k \in SessionIds : RecorderMicGranted(r, k)
    \/ \E r \in SessionIds, o \in SendOutcomes :
          FramesRelayed < MaxRelayed /\ AudioFrame(r, o)
    \/ \E o \in SendOutcomes : FramesRelayed < MaxRelayed /\ VideoFrame(o)
    \/ \E id \in SessionIds, calls \in PlainToolCalls : OnMessage(id, 0, calls)
    \/ \E id \in SessionIds : OnClose(id)

(***************************************************************************)
(* PCM transcoding.  A sample is the rational num/den; a decoded sample is  *)
(* again a rational, dec.num/dec.den.                                      *)
(***************************************************************************)
MaxDenominator == 8     \* samples num/den with den in 1..MaxDenominator

NegativeScale == 32768  \* 0x8000
PositiveScale == 32767  \* 0x7FFF
DecodeDivisor == 32768  \* 32768.0

\* The two encoders and the decoder each is paired with.
CodecPaths == {"controller", "duplex"}

\* Math.max(-1, Math.min(1, s)), on the numerator
Clamp(num, den) == IF num < -den THEN -den ELSE IF num > den THEN den ELSE num

\* The integer part of a/b, b > 0: what storing a number in a typed integer
\* array keeps of it.
Truncate(a, b) == IF a >= 0 THEN a \div b ELSE -((-a) \div b)

\* Storing the integer x in an Int16Array: x modulo 2^16, as a signed value.
ToInt16(x) == ((x + 32768) % 65536) - 32768

\* int16[i] = s < 0 ? s * 0x8000 : s * 0x7FFF, after the clamp
\* (AudioController.pcmFloat32ToBase64)
EncodeSample(num, den) ==
    LET s == Clamp(num, den) IN
    ToInt16(IF s < 0 THEN Truncate(s * NegativeScale, den)
            ELSE Truncate(s * PositiveScale, den))

\* the same lines of PCMProcessor.process in the recorder's worklet
WorkletEncodeSample(num, den) ==
    LET s == Clamp(num, den) IN
    ToInt16(IF s < 0 THEN Truncate(s * NegativeScale, den)
            ELSE Truncate(s * PositiveScale, den))

\* new Uint8Array(int16.buffer): the two bytes of one sample, low byte first
BytesOfInt16(x) == LET u == (x + 65536) % 65536 IN <<u % 256, u \div 256>>

Int16OfBytesSwapped(b) == ToInt16(b[2] + 256 * b[1])

\* new Int16Array(bytes.buffer): the sample that two bytes hold
Int16OfBytes(b) == ToInt16(b[1] + 256 * b[2])

\* btoa on the two bytes of a sample: three base-64 digits and the padding,
\* written 64
Btoa(b) == <<b[1] \div 4, (b[1] % 4) * 16 + b[2] \div 16, (b[2] % 16) * 4, 64>>

\* atob on such a group
Atob(q) == <<q[1] * 4 + q[2] \div 16, (q[2] % 16) * 16 + q[3] \div 4>>

\* dataInt16[i] / 32768.0, as a rational
DecodeSample(x) == [num |-> x, den |-> DecodeDivisor]

NoSample ==
    [pc |-> "idle", path |-> "none", num |-> 0, den |-> 1, base64 |-> <<>>,
     dec |-> [num |-> 0, den |-> 1]]

\* A sample arrives at one of the encoders.
ChooseSample(path, num, den) ==
    /\ codec.pc = "idle"
    /\ codec' = [NoSample EXCEPT !.pc = "sample", !.path = path, !.num = num, !.den = den]
    /\ UNCHANGED <<ttsVars, schedVars, voiceVars, liveVars, cookVars>>

\* pcmFloat32ToBase64, or PCMProcessor.process and arrayBufferToBase64
Encode ==
    /\ codec.pc = "sample"
    /\ codec' = [codec EXCEPT !.pc = "encoded",
                              !.base64 = Btoa(BytesOfInt16(
                                  IF codec.path = "controller"
                                  THEN EncodeSample(codec.num, codec.den)
                                  ELSE WorkletEncodeSample(codec.num, codec.den)))]
    /\ UNCHANGED <<ttsVars, schedVars, voiceVars, liveVars, cookVars>>

\* base64ToAudioBuffer, or convertPCMToAudioBuffer
Decode ==
    /\ codec.pc = "encoded"
    /\ codec' = [codec EXCEPT !.pc = "decoded",
                              !.dec = DecodeSample(Int16OfBytes(Atob(codec.base64)))]
    /\ UNCHANGED <<ttsVars, schedVars, voiceVars, liveVars, cookVars>>

InitCodec == codec = NoSample

NextCodec ==
    \/ \E path \in CodecPaths, den \in 1..MaxDenominator :
          \E num \in (-den - 1)..(den + 1) : ChooseSample(path, num, den)
    \/ Encode
    \/ Decode

(***************************************************************************)
(* CookMode.  The component is mounted once; its hook instance, the session *)
(* bridge above, lives and dies with it.  Each startCamera call is named by *)
(* its number, and so is the camera stream it opens.                       *)
(***************************************************************************)
MaxFlips == 2   \* bound on the toggleCamera calls

CamIds == 1..(MaxFlips + 1)

\* stream is the React state of that name (0 for null), mountStream the
\* value of it that the mount effect closed over, cam the startCamera calls.
NoCook ==
    [phase |-> "unmounted", facingMode |-> "environment", stream |-> 0, mountStream |-> 0,
     srcObject |-> 0, nCams |-> 0, cam |-> [k \in CamIds |-> "none"]]

\* stream.getTracks().forEach(t => t.stop()) where the stream is not null
StopTracks(cams, s) == IF s # 0 THEN [cams EXCEPT ![s] = "stopped"] ELSE cams

\* startCamera() up to its await, in an effect whose closure holds s for
\* stream
StartCamera(c, s) ==
    [c EXCEPT !.nCams = @ + 1,
              !.cam = [StopTracks(@, s) EXCEPT ![c.nCams + 1] = "pending"]]

\* The cleanup of the mount effect, after disconnect(): it stops the stream
\* that the effect closed over.
UnmountCamera(c) == [c EXCEPT !.phase = "exited", !.cam = StopTracks(@, c.mountStream)]

\* The first render and its effects: startCamera(), then connect(); both
\* effects close over the stream of that render.
Mount ==
    /\ cook.phase = "unmounted"
    /\ cook' = StartCamera([cook EXCEPT !.phase = "mounted", !.mountStream = cook.stream],
                           cook.stream)
    /\ ConnectEffect

\* toggleCamera(), from the button or the flipCamera tool: the next render
\* runs the camera effect again, closing over the stream of that render.
ToggleCamera ==
    /\ cook.phase = "mounted"
    /\ cook.nCams < MaxFlips + 1
    /\ cook' = StartCamera([cook EXCEPT !.facingMode = IF @ = "user" THEN "environment"
                                                       ELSE "user"], cook.stream)
    /\ UNCHANGED <<ttsVars, schedVars, voiceVars, liveVars, codecVars>>

\* getUserMedia of startCamera call k fulfils: setStream(newStream), which
\* a component no longer mounted ignores, and the video element takes it.
CameraGranted(k) ==
    /\ cook.cam[k] = "pending"
    /\ cook' = IF cook.phase = "mounted"
               THEN [cook EXCEPT !.cam[k] = "live", !.stream = k, !.srcObject = k]
               ELSE [cook EXCEPT !.cam[k] = "live"]
    /\ UNCHANGED <<ttsVars, schedVars, voiceVars, liveVars, codecVars>>

\* getUserMedia of startCamera call k rejects: the catch logs it
CameraDenied(k) ==
    /\ cook.cam[k] = "pending"
    /\ cook' = [cook EXCEPT !.cam[k] = "denied"]
    /\ UNCHANGED <<ttsVars, schedVars, voiceVars, liveVars, codecVars>>

\* onExit() unmounts the component: the cleanup of the mount effect
Exit ==
    /\ cook.phase = "mounted"
    /\ DisconnectEffect
    /\ cook' = UnmountCamera(cook)

InitCook == cook = NoCook

\* The duplex screen from its mounting on, with the events of its session
\* and of its recorder.
NextCook ==
    \/ Mount
    \/ ToggleCamera
    \/ \E k \in CamIds : CameraGranted(k)
    \/ \E k \in CamIds : CameraDenied(k)
    \/ Exit
    \/ \E id \in SessionIds : OnOpen(id)
    \/ \E r, k \in SessionIds : RecorderModuleLoaded(r, k)
    \/ \E r, k \in SessionIds : RecorderMicGranted(r, k)
    \/ \E r, k \in SessionIds : RecorderMicDenied(r, k)
    \/ \E id \in SessionIds : OnClose(id)
    \/ \E id \in SessionIds : OnError(id)

Init == InitTTS /\ InitSched /\ InitVoice /\ InitLive /\ InitCodec /\ InitCook

SpecTTS == Init /\ [][NextTTS]_vars

SpecExtract == Init /\ [][NextExtract]_vars

SpecSplit == Init /\ [][NextSplit]_vars

SpecSched == Init /\ [][NextSched]_vars

SpecVoice == Init /\ [][NextVoice]_vars

SpecClip == Init /\ [][NextClip]_vars

SpecLive == Init /\ [][NextLive]_vars

SpecLiveTools == Init /\ [][NextLiveTools]_vars

SpecLiveAudio == Init /\ [][NextLiveAudio]_vars

SpecLiveDecode == Init /\ [][NextLiveDecode]_vars

SpecRelay == Init /\ [][NextRelay]_vars

SpecRelayTools == Init /\ [][NextRelayTools]_vars

SpecCodec == Init /\ [][NextCodec]_vars

SpecCook == Init /\ [][NextCook]_vars

(***************************************************************************)
(* Properties of the ordered TTS delivery                                  *)
(***************************************************************************)
WasHanded(s, i) == \E p \in DOMAIN handed : handed[p].s = s /\ handed[p].i = i

C2_NoAudioFromAbandonedStream ==
    \A p \in DOMAIN handed : handed[p].s = handed[p].cur

\* C3: after the voice flag was switched off during a response, no further
\* unit of that response is handed to the player, and the display callback
\* has received all the text that arrived.
C3_NoQueueAfterVoiceOff ==
    /\ \A p \in DOMAIN handed : ~handed[p].afterOff
    /\ \A s \in StreamIds : stream[s].shown = stream[s].fullText

\* C4: no continuation of the chain is ever rejected, and every unit whose
\* continuation has finished and whose synthesis request produced audio was
\* handed to the player, whatever failed in the units before it.
C4_ChainNeverRejects ==
    /\ \A s \in StreamIds : \A i \in 1..Len(links[s]) : links[s][i].pc # "rejected"
    /\ \A s \in StreamIds : \A i \in 1..Len(links[s]) :
          (links[s][i].pc = "done" /\ links[s][i].fetch = "audio") => WasHanded(s, i)

\* The queue step of one unit threw and a later unit of the same stream was
\* still handed over and its continuation finished.
C4_Witness ==
    \E s \in StreamIds : \E i, j \in 1..Len(links[s]) :
        /\ i < j
        /\ links[s][i].threw /\ links[s][i].pc = "done"
        /\ WasHanded(s, j) /\ links[s][j].pc = "done"

(***************************************************************************)
(* Properties of the playback schedulers                                   *)
(***************************************************************************)
EndOf(f) == f.start + f.dur

\* C5: no two scheduled frames overlap, and a frame enqueued before the end
\* of its predecessor starts exactly at that end, in AudioStreamer (frames
\* not halted by stop) and in AudioController.
C5_NoOverlapZeroGap ==
    /\ \A p, q \in DOMAIN frames :
          (p < q /\ ~frames[p].halted /\ ~frames[q].halted)
              => frames[q].start >= EndOf(frames[p])
    /\ \A q \in 2..Len(frames) :
          (~frames[q - 1].halted /\ ~frames[q].halted /\ frames[q].at < EndOf(frames[q - 1]))
              => frames[q].start = EndOf(frames[q - 1])
    /\ \A p, q \in DOMAIN ctlFrames : p < q => ctlFrames[q].start >= EndOf(ctlFrames[p])
    /\ \A q \in 2..Len(ctlFrames) :
          ctlFrames[q].at < EndOf(ctlFrames[q - 1])
              => ctlFrames[q].start = EndOf(ctlFrames[q - 1])

\* The streamer holds a frame that arrived while its predecessor was still
\* to finish, and the controller one that arrived after its predecessor's end.
C5_Witness ==
    /\ \E q \in 2..Len(frames) :
          /\ ~frames[q - 1].halted /\ ~frames[q].halted
          /\ frames[q].at > frames[q - 1].at
          /\ frames[q].at < EndOf(frames[q - 1])
    /\ \E q \in 2..Len(ctlFrames) : ctlFrames[q].at > EndOf(ctlFrames[q - 1])

\* C6 as stated: stop() halts every scheduled frame, empties the list and
\* sets nextStartTime to the clock time of the stop, and the first frame
\* enqueued after a stop starts at the clock time of its enqueue.
C6_StopResetsToClock ==
    /\ stopAt >= 0 =>
          /\ scheduledSources = <<>>
          /\ \A k \in DOMAIN frames : frames[k].halted
          /\ nextStartTime = stopAt
    /\ \A k \in DOMAIN frames : frames[k].first => frames[k].start = frames[k].at

\* C6 amended: stop() halts every scheduled frame, empties the list and
\* sets nextStartTime to 0, which no clock reading is below, and the first
\* frame enqueued after a stop starts at the clock time of its enqueue.
C6_StopResetsToZero ==
    /\ stopAt >= 0 =>
          /\ scheduledSources = <<>>
          /\ \A k \in DOMAIN frames : frames[k].halted
          /\ nextStartTime = 0
          /\ nextStartTime <= clock
    /\ \A k \in DOMAIN frames : frames[k].first => frames[k].start = frames[k].at

\* A frame was enqueued after a stop at a clock time before the end of a
\* frame that the stop had halted.
C6_Witness ==
    \E p, q \in DOMAIN frames :
        /\ p < q
        /\ frames[p].halted
        /\ frames[q].first
        /\ frames[q].at > 0
        /\ EndOf(frames[p]) > frames[q].at

C8_FiresOnlyAfterObservedSilence ==
    \A k \in StartIds : ~rec[k].firedEarly

\* C9: once stop() has ended the recording of a session, that session's
\* polling loop takes no further reading and does not fire.
C9_NoTickAfterStop ==
    \A k \in StartIds : ~rec[k].tickedAfterStop /\ ~rec[k].firedAfterStop

(***************************************************************************)
(* Properties of the duplex session bridge                                 *)
(***************************************************************************)
\* The results sent to session id that carry the call at position p of the
\* request handled by n, as (message, position) pairs.
ResultsFor(n, p, id) ==
    { mq \in (DOMAIN sent) \X (1..MaxCalls) :
        /\ sent[mq[1]].to = id
        /\ mq[2] <= Len(sent[mq[1]].functionResponses)
        /\ sent[mq[1]].functionResponses[mq[2]].id = <<n, p>> }

\* C10: once the handler of a tool-call request has finished, every call of
\* the request whose name is registered has exactly one result, sent to the
\* session that issued the request, with the call's id and name and with
\* outcome success if the action completed and error if it threw.
C10_ExactlyOneResultPerRegisteredCall ==
    \A n \in HandlerIds :
        handlers[n].pc = "done" =>
            \A p \in 1..Len(handlers[n].calls) :
                Registered(handlers[n].calls[p].name) =>
                    /\ Cardinality(ResultsFor(n, p, handlers[n].sess)) = 1
                    /\ \A mq \in ResultsFor(n, p, handlers[n].sess) :
                          LET resp == sent[mq[1]].functionResponses[mq[2]] IN
                          /\ resp.name = handlers[n].calls[p].name
                          /\ resp.result = IF handlers[n].outs[p] = "ok" THEN "success"
                                           ELSE "error"

\* The results sent to any session that carry the call at position p of the
\* request handled by n.
ResultsAnywhere(n, p) == UNION { ResultsFor(n, p, id) : id \in SessionIds }

\* The request handled by n names no registered function.
NoneRegistered(n) ==
    \A p \in 1..Len(handlers[n].calls) : ~Registered(handlers[n].calls[p].name)

\* The handler of request n has finished: its unregistered calls invoked no
\* action and have no result, its registered calls were executed and each
\* has its one result at the issuing session, and a request without any
\* registered call sent no message.
UnregisteredSkipped(n) ==
    /\ \A p \in 1..Len(handlers[n].calls) :
          IF Registered(handlers[n].calls[p].name)
          THEN /\ handlers[n].outs[p] # "none"
               /\ Cardinality(ResultsFor(n, p, handlers[n].sess)) = 1
          ELSE /\ handlers[n].outs[p] = "none"
               /\ ResultsAnywhere(n, p) = {}
    /\ NoneRegistered(n) => \A m \in DOMAIN sent : sent[m].from # n

C11_Step ==
    /\ \A n \in HandlerIds : handlers'[n].pc = "done" => UnregisteredSkipped(n)'
    /\ \A n \in HandlerIds :
          (handlers[n].pc = "none" /\ handlers'[n].pc = "done" /\ NoneRegistered(n)')
              => UNCHANGED <<connected, sessionRef, recorderRef, sess, rcd, sent>>

\* C11: an unregistered function name in a tool-call request invokes no
\* action, yields no result for that call and changes nothing of the session;
\* the registered calls of the same request are executed and acknowledged to
\* the session; a request with no registered call sends no response message.
C11_UnregisteredCallIgnored == [][C11_Step]_vars

\* The part of C11 about the unregistered calls alone.
C11_UnregisteredPart ==
    \A n \in HandlerIds :
        handlers[n].pc = "done" =>
            /\ \A p \in 1..Len(handlers[n].calls) :
                  ~Registered(handlers[n].calls[p].name) =>
                      handlers[n].outs[p] = "none" /\ ResultsAnywhere(n, p) = {}
            /\ \A p \in 1..Len(handlers[n].calls) :
                  Registered(handlers[n].calls[p].name) => handlers[n].outs[p] # "none"
            /\ NoneRegistered(n) => \A m \in DOMAIN sent : sent[m].from # n

\* The bridge goes from not Connected to Connected in this step.
BecomesConnected == ~connected /\ connected'

\* Session id, the one connect() created last and the ref still holds, gets
\* its open event in this step.
CurrentSessionOpens(id) ==
    /\ id = sessionRef
    /\ id = nSessions
    /\ sess[id].state = "connecting"
    /\ sess'[id].state = "open"

C12_Step == BecomesConnected => \E id \in SessionIds : CurrentSessionOpens(id)

\* C12: the bridge becomes Connected only by the open event of the session
\* created by the most recent connect() while that session is still the
\* current one; an open event that arrives after disconnect() or cleanup()
\* does not make it Connected.
C12_ConnectedOnlyByCurrentOpen == [][C12_Step]_vars

\* Session id has been created and neither closed nor asked to close.
SessionLive(id) ==
    /\ sess[id].state \in {"connecting", "open"}
    /\ ~sess[id].closeReq
    /\ ~sess[id].closePending

\* C13: over any sequence of connect() and disconnect() calls at most one
\* session has been created and not yet closed (here even: not yet asked to
\* close); a second connect() leaves no earlier session open and
\* unreferenced.
C13_AtMostOneLiveSession ==
    /\ Cardinality({ id \in SessionIds : SessionLive(id) }) <= 1
    /\ \A id \in SessionIds : SessionLive(id) => sessionRef = id

\* The close event, or the error event, of session id is handled in this step.
CloseEventStep(id) == sess[id].state # "closed" /\ sess'[id].state = "closed"

ErrorEventStep(id) == ~sess[id].erred /\ sess'[id].erred

\* No recorder this bridge made delivers microphone data.
CaptureStopped == \A r \in SessionIds : ~Capturing(rcd[r])

\* Nothing is scheduled on the streamer and its next start time is reset.
PlaybackStopped == scheduledSources = <<>> /\ nextStartTime = 0

\* Disconnected, with capture and playback stopped
TornDown ==
    /\ ~connected
    /\ sessionRef = 0
    /\ CaptureStopped
    /\ PlaybackStopped

C14_Step ==
    (\E id \in SessionIds : CloseEventStep(id) \/ ErrorEventStep(id)) => TornDown'

\* C14: an error event or a close event of the transport, received in any
\* state, leaves the bridge Disconnected (connected false, session handle
\* cleared) with capture stopped and playback stopped and reset.
C14_EventTearsDown == [][C14_Step]_vars

\* disconnect() is called in this step (a repeated call that changes nothing
\* is a stuttering step).
DisconnectStep == hist' = [call |-> "disconnect", later |-> FALSE] /\ hist' # hist

\* close() has been requested on session id, or is chained on its pending
\* session promise, or the session has closed.
CloseRequested(id) ==
    sess[id].closeReq \/ sess[id].closePending \/ sess[id].state = "closed"

C15_Step ==
    /\ hist'.call = "disconnect" => CaptureStopped'
    /\ (DisconnectStep /\ nSessions > 0) => CloseRequested(nSessions)'

\* C15: from a disconnect() call on, whatever the state it is called in
\* (before the open event, with AudioRecorder.start() suspended), the
\* outbound capture is not running until the next connect(), and the call
\* requests close() on the transport of the session.
C15_DisconnectStopsCapture == [][C15_Step]_vars

\* The state is the one a disconnect() call has just produced.
JustDisconnected == hist = [call |-> "disconnect", later |-> FALSE]

C16_Step ==
    /\ (JustDisconnected /\ Disconnect) => UNCHANGED vars
    /\ JustDisconnected' => TornDown'
    /\ \A id \in SessionIds : sess'[id].closes <= 1

\* C16: disconnect() called twice in a row leaves the bridge in the state
\* that one call leaves it in: Disconnected, handle cleared, capture and
\* playback stopped; and close() is requested at most once on any session.
C16_DisconnectIdempotent == [][C16_Step]_vars

\* The parts of C16 other than the stopped capture.
C16_SecondCallChangesNothing ==
    [][ /\ (JustDisconnected /\ Disconnect) => UNCHANGED vars
        /\ JustDisconnected' => (~connected' /\ sessionRef' = 0 /\ PlaybackStopped')
        /\ \A id \in SessionIds : sess'[id].closes <= 1 ]_vars

(***************************************************************************)
(* Properties of sentence extraction                                       *)
(***************************************************************************)
\* The units "Hello there!" and "How are you?"
ExampleUnits ==
    << <<"H", "e", "l", "l", "o", " ", "t", "h", "e", "r", "e", "!">>,
       <<"H", "o", "w", " ", "a", "r", "e", " ", "y", "o", "u", "?">> >>

\* The texts of the synthesis requests of stream s, in the order issued.
UnitTexts(s) == [i \in 1..Len(links[s]) |-> links[s][i].text]

\* Stream s, with voice on, has received the first n chunks of the example.
ReceivedExample(s, n) ==
    /\ VoiceFlagSeenBy(s)
    /\ stream[s].nChunks = n
    /\ stream[s].fullText =
          (IF n >= 1 THEN ExampleChunks[1] ELSE <<>>)
          \o (IF n >= 2 THEN ExampleChunks[2] ELSE <<>>)
          \o (IF n >= 3 THEN ExampleChunks[3] ELSE <<>>)

\* The audio of stream s reached the player in the order of its units.
QueuedInUnitOrder(s) ==
    \A p, q \in DOMAIN handed :
        (p < q /\ handed[p].s = s /\ handed[q].s = s) => handed[p].i < handed[q].i

\* C17: extraction works across chunk boundaries.  While a stream is being
\* read every unit ends in a sentence-boundary character; the chunks
\* "Hello there! ", "How are ", "you?" yield the unit "Hello there!" after
\* the first chunk, nothing more after the second, and exactly the units
\* "Hello there!" and "How are you?" after the third and after the end of
\* the stream, one synthesis request each, handed to the player in that
\* order whichever fetch returns first.
C17_ExtractionAcrossChunks ==
    \A s \in StreamIds :
        /\ stream[s].phase = "reading" =>
              \A i \in 1..Len(links[s]) :
                  IsBoundary(links[s][i].text[Len(links[s][i].text)])
        /\ (ReceivedExample(s, 1) /\ stream[s].phase = "reading") =>
              UnitTexts(s) = SubSeq(ExampleUnits, 1, 1)
        /\ (ReceivedExample(s, 2) /\ stream[s].phase = "reading") =>
              UnitTexts(s) = SubSeq(ExampleUnits, 1, 1)
        /\ ReceivedExample(s, 3) =>
              UnitTexts(s) = ExampleUnits /\ QueuedInUnitOrder(s)

\* The example was streamed to its end, the fetch of the second unit
\* returned while the first was pending, and both units were queued.
C17_Witness ==
    \E s \in StreamIds :
        /\ ReceivedExample(s, 3)
        /\ stream[s].phase = "returned"
        /\ Len(links[s]) = 2
        /\ links[s][2].early
        /\ WasHanded(s, 1)
        /\ WasHanded(s, 2)

(***************************************************************************)
(* Properties of the PCM transcoding                                       *)
(***************************************************************************)
Abs(x) == IF x >= 0 THEN x ELSE -x

\* The sample is in [-1, 1] and has been encoded and decoded.
RoundTripDone == codec.pc = "decoded" /\ Abs(codec.num) <= codec.den

\* decoded - sample and its absolute value, in units of 1/(dec.den * den)
RoundTripDiff == codec.dec.num * codec.den - codec.num * codec.dec.den

RoundTripError == Abs(RoundTripDiff)

\* One quantization step, 1/32768, in the same units
QuantStep == (codec.dec.den * codec.den) \div 32768

\* C18 as stated: for every sample s in [-1, 1], decoding the encoding of s
\* yields a value within one quantization step, 1/32768, of s.
C18_RoundTripWithinOneStep == RoundTripDone => RoundTripError <= QuantStep

\* C18 as amended: the decoded value is below s by less than two
\* quantization steps for s >= 0, and above s by less than one step for
\* s < 0.
C18_RoundTripWithinTwoSteps ==
    RoundTripDone =>
        /\ codec.num >= 0 => (RoundTripDiff <= 0 /\ RoundTripError < 2 * QuantStep)
        /\ codec.num < 0 => (RoundTripDiff >= 0 /\ RoundTripError < QuantStep)

\* A positive sample came back more than one step away.
C18_Witness == RoundTripDone /\ codec.num > 0 /\ RoundTripError > QuantStep

(***************************************************************************)
(* Properties of the text display                                          *)
(***************************************************************************)
RECURSIVE Concat(_)
Concat(ss) == IF ss = <<>> THEN <<>> ELSE Head(ss) \o Concat(Tail(ss))

\* Stream s could take the chunk c, or end, as far as the bounds of the
\* model go.
ChunkWithinBounds(s, c) ==
    /\ ChunksDelivered < MaxChunks
    /\ VoiceFlagSeenBy(s) =>
          UnitsIssued + Len(ExtractUnits(stream[s].sentenceBuffer \o c).units) <= MaxUnits

EndWithinBounds(s) ==
    VoiceFlagSeenBy(s) =>
        UnitsIssued + Len(FlushUnits(stream[s].sentenceBuffer)) <= MaxUnits

\* C19: at any moment the display holds the concatenation of all chunks the
\* stream has yielded, whatever the voice flag; the stream being read can
\* take its next chunk and can return whatever the state of the synthesis
\* fetches and of the chain; and the value returned is the full text.
C19_DisplayNeverWaits ==
    \A s \in StreamIds :
        /\ stream[s].shown = Concat(stream[s].got)
        /\ stream[s].phase = "returned" => stream[s].result = Concat(stream[s].got)
        /\ (s = nStreams /\ stream[s].phase = "reading") =>
              /\ \A c \in Chunks : ChunkWithinBounds(s, c) => ENABLED TextChunk(s, c)
              /\ EndWithinBounds(s) => ENABLED StreamEnd(s)

\* A stream with voice on returned its two chunks of text while a fetch was
\* pending and its continuation had not run, and a stream with voice off
\* displayed a chunk.
C19_Witness ==
    /\ \E s \in StreamIds :
          /\ stream[s].captured
          /\ stream[s].phase = "returned"
          /\ Len(stream[s].got) >= 2
          /\ stream[s].result = stream[s].shown
          /\ \E i \in 1..Len(links[s]) :
                links[s][i].fetch = "pending" /\ links[s][i].pc = "chained"
    /\ \E s \in StreamIds :
          /\ ~stream[s].captured
          /\ Len(stream[s].shown) > 0

(***************************************************************************)
(* Properties of leaving the duplex screen                                 *)
(***************************************************************************)
OpenCameras == { k \in CamIds : cook.cam[k] = "live" }

OpenMicrophones == UNION { rcd[r].liveMics : r \in SessionIds }

ExitStep == cook.phase = "mounted" /\ cook'.phase = "exited"

\* C20: the step that leaves the duplex screen leaves no camera track and no
\* microphone track live, and none is live at any time after it.
C20_ExitReleasesHandles ==
    cook.phase = "exited" => (OpenCameras = {} /\ OpenMicrophones = {})

\* The part about the step itself, for the microphone alone: the exit step
\* leaves no microphone track live.
C20_ExitStepReleasesMicrophone ==
    [][ExitStep => OpenMicrophones' = {}]_vars

(***************************************************************************)
(* Properties of the continuous capture                                    *)
(***************************************************************************)
\* start() call k of recorder r ended with the rejection of getUserMedia.
StartDenied(r, k) == rcd[r].co[k] = "denied"

\* The worklet node whose port.onmessage calls onAudioData was made by
\* start() call k of recorder r.
CallbackWired(r, k) ==
    \/ k \in rcd[r].connectedNodes
    \/ \E g \in rcd[r].graphs : g.co = k

\* C21: a start() call whose microphone request fails ends rejected and stays
\* so, it leaves no microphone stream open, and it never makes or connects
\* the worklet node that invokes the audio-data callback.
C21_Step ==
    \A r, k \in SessionIds :
        /\ StartDenied(r, k) => StartDenied(r, k)'
        /\ StartDenied(r, k)' => (~CallbackWired(r, k)' /\ k \notin rcd'[r].liveMics)

C21_DeniedStartNeverCallsBack == [][C21_Step]_vars

\* A start() call was denied the microphone on a recorder whose context was
\* open and had loaded the processor.
C21_Witness ==
    \E r, k \in SessionIds :
        StartDenied(r, k) /\ rcd[r].ctx # 0 /\ rcd[r].ctx \in rcd[r].loaded

(***************************************************************************)
(* Properties of the buffered-turn capture                                 *)
(***************************************************************************)
\* The capture of start() k was stopped while it was recording.
WasStopped(k) == rec[k].stopped

\* C22: a stopped capture gets at most one completion callback call, exactly
\* one once its clip is read, and the call carries the capture's own clip,
\* the clip's mime type and the trimmed text recognised during the capture,
\* or the placeholder when that is empty or there is no recognition.
C22_CompletionOncePerStop ==
    \A k \in StartIds :
        /\ Len(rec[k].given) <= 1
        /\ Len(rec[k].given) = 1 => WasStopped(k)
        /\ rec[k].stopEv = "delivered" =>
              /\ Len(rec[k].given) = 1
              /\ rec[k].given[1].base64 = <<k>>
              /\ rec[k].given[1].mimeType = MimeType
              /\ rec[k].given[1].transcript = TranscriptOrPlaceholder(rec[k].heard)

\* The parts of it that hold: one call per stopped capture, with the mime
\* type, also without a recognition object.
C22_OnceWithMimeType ==
    \A k \in StartIds :
        /\ Len(rec[k].given) <= 1
        /\ Len(rec[k].given) = 1 => WasStopped(k)
        /\ rec[k].stopEv = "delivered" =>
              /\ Len(rec[k].given) = 1
              /\ rec[k].given[1].mimeType = MimeType
              /\ vr.recognition = "none" => rec[k].given[1].transcript = Placeholder

\* C23: a capture whose stop was requested while its start() awaited the
\* microphone never records afterwards and holds no open microphone stream.
C23_StopWhileAwaitingIsEffective ==
    \A k \in StartIds :
        rec[k].stopAsked => (rec[k].mr # "recording" /\ ~rec[k].streamLive)

(***************************************************************************)
(* Properties of the unit extraction                                       *)
(***************************************************************************)
\* Stream s, with voice on, takes a chunk in this step.
VoicedChunkStep(s) ==
    /\ stream[s].captured
    /\ stream'[s].nChunks = stream[s].nChunks + 1

\* The pending buffer that the loop of that step starts from, and what the
\* loop did with it.
FedBuffer(s) == stream[s].sentenceBuffer \o stream'[s].got[Len(stream'[s].got)]

StepsTaken(s) == ExtractUnits(FedBuffer(s)).steps

\* The prefix of length k of buf ends at a sentence-boundary character that
\* whitespace or the end of the buffer follows.
EndsSentence(buf, k) ==
    /\ k \in 1..Len(buf)
    /\ IsBoundary(buf[k])
    /\ (k = Len(buf) \/ IsSpace(buf[k + 1]))

\* Such a prefix of at least two characters with no line break before its
\* last character.
EndsSentenceOnOneLine(buf, k) ==
    /\ EndsSentence(buf, k)
    /\ k >= 2
    /\ \A j \in 1..(k - 1) : buf[j] # "\n"

\* The whitespace that follows position k of buf, as a length.
WhitespaceAfter(buf, k) ==
    LET ends == { m \in k..Len(buf) : \A j \in (k + 1)..m : IsSpace(buf[j]) }
    IN  CHOOSE m \in ends : \A n \in ends : n <= m

\* The prefix of a step as a unit: its text without the decorative
\* characters, or nothing when that is blank.
UnitOfPrefix(st) ==
    LET text == StripEmoji(SubSeq(st.buf, 1, st.sentence))
    IN  st.unit = IF \A j \in 1..Len(text) : IsSpace(text[j]) THEN <<>> ELSE <<text>>

RECURSIVE UnitsOfSteps(_)
UnitsOfSteps(steps) ==
    IF steps = <<>> THEN <<>> ELSE Head(steps).unit \o UnitsOfSteps(Tail(steps))

\* The units of the steps are the synthesis requests the stream issues in
\* this step, in order.
StepsBecomeUnits(s) == UnitTexts(s)' = UnitTexts(s) \o UnitsOfSteps(StepsTaken(s))

\* C24 as stated: each extraction step takes the longest prefix that ends a
\* sentence, and that prefix becomes one unit.
C24_LongestStep ==
    \A s \in StreamIds :
        VoicedChunkStep(s) =>
            /\ StepsBecomeUnits(s)
            /\ \A i \in 1..Len(StepsTaken(s)) :
                  LET st == StepsTaken(s)[i] IN
                  /\ EndsSentence(st.buf, st.sentence)
                  /\ \A m \in 1..Len(st.buf) : EndsSentence(st.buf, m) => m <= st.sentence
                  /\ UnitOfPrefix(st)

C24_StepTakesLongestPrefix == [][C24_LongestStep]_vars

\* C24 amended: each extraction step takes the shortest prefix of at least
\* two characters, without a line break before its last character, that ends
\* a sentence; it removes that prefix and the whitespace after it; the
\* prefix without its decorative characters becomes one unit unless it is
\* blank; and the steps go on until the buffer has no such prefix.
C24_ShortestStep ==
    \A s \in StreamIds :
        VoicedChunkStep(s) =>
            /\ StepsBecomeUnits(s)
            /\ \A m \in 1..Len(stream'[s].sentenceBuffer) :
                  ~EndsSentenceOnOneLine(stream'[s].sentenceBuffer, m)
            /\ \A i \in 1..Len(StepsTaken(s)) :
                  LET st   == StepsTaken(s)[i]
                      left == IF i < Len(StepsTaken(s)) THEN StepsTaken(s)[i + 1].buf
                              ELSE stream'[s].sentenceBuffer
                  IN
                  /\ EndsSentenceOnOneLine(st.buf, st.sentence)
                  /\ \A m \in 1..Len(st.buf) :
                        EndsSentenceOnOneLine(st.buf, m) => st.sentence <= m
                  /\ left = SubSeq(st.buf, WhitespaceAfter(st.buf, st.sentence) + 1,
                                   Len(st.buf))
                  /\ UnitOfPrefix(st)

C24_StepTakesShortestPrefix == [][C24_ShortestStep]_vars

\* A buffer held two prefixes that end a sentence and a step took the
\* shorter one.
C24_Witness ==
    \E s \in StreamIds :
        /\ stream[s].captured
        /\ Len(stream[s].got) >= 2
        /\ LET c    == stream[s].got[Len(stream[s].got)]
               full == stream[s].fullText
               old  == SubSeq(full, 1, Len(full) - Len(c))
               buf  == ExtractUnits(old).rest \o c
               ex   == ExtractUnits(buf)
           IN  /\ ExtractUnits(old).units = <<>>
               /\ Len(ex.steps) >= 1
               /\ \E m \in 1..Len(buf) : EndsSentence(buf, m) /\ m > ex.steps[1].sentence
               /\ stream[s].sentenceBuffer = ex.rest
               /\ UnitTexts(s) = ex.units

\* The characters of a text that are neither whitespace nor decorative, in
\* order.
RECURSIVE Essential(_)
Essential(s) ==
    IF s = <<>> THEN <<>>
    ELSE IF IsSpace(Head(s)) \/ IsEmoji(Head(s)) THEN Essential(Tail(s))
         ELSE <<Head(s)>> \o Essential(Tail(s))

\* The characters submitted for synthesis by stream s so far, in order.
Submitted(s) == Essential(Concat(UnitTexts(s)))

\* C25: with voice on, the units submitted so far followed by the pending
\* buffer hold every essential character of the text received so far exactly
\* once and in order; after the end of the stream and its final flush the
\* units alone do.
C25_NoTextLostOrDuplicated ==
    \A s \in StreamIds :
        stream[s].captured =>
            /\ stream[s].phase = "reading" =>
                  Submitted(s) \o Essential(stream[s].sentenceBuffer)
                      = Essential(stream[s].fullText)
            /\ stream[s].phase = "returned" =>
                  Submitted(s) = Essential(Concat(stream[s].got))

\* A stream with voice on ended with an extracted unit and a flushed one,
\* after text that held whitespace and a decorative character.
C25_Witness ==
    \E s \in StreamIds :
        /\ stream[s].captured
        /\ stream[s].phase = "returned"
        /\ Len(links[s]) >= 2
        /\ stream[s].sentenceBuffer # <<>>
        /\ Len(FlushUnits(stream[s].sentenceBuffer)) = 1
        /\ \E j \in 1..Len(stream[s].fullText) : IsEmoji(stream[s].fullText[j])
        /\ \E j \in 1..Len(stream[s].fullText) : IsSpace(stream[s].fullText[j])
        /\ Submitted(s) = Essential(stream[s].fullText)

(***************************************************************************)
(* Properties of the start times                                           *)
(***************************************************************************)
\* The end time of the frame before frame k of the streamer, 0 when frame k
\* is the first one or the first one after a stop().
StreamerPredEnd(k) ==
    IF k = 1 \/ frames[k].first THEN 0 ELSE frames[k - 1].start + frames[k - 1].dur

\* The same for the controller, which has no stop().
ControllerPredEnd(k) ==
    IF k = 1 THEN 0 ELSE ctlFrames[k - 1].start + ctlFrames[k - 1].dur

\* Frame f was scheduled at the later of the clock it arrived at and the
\* end of its predecessor, so neither in the past nor later than that.
ScheduledAtMax(f, predEnd) ==
    /\ f.start = Max(f.at, predEnd)
    /\ f.start >= f.at
    /\ f.at >= predEnd => f.start = f.at

\* C26: every frame of either scheduler starts at max(clock, nextStartTime):
\* never in the past, and at the clock when its predecessor has finished.
C26_StartAtMaxOfClockAndNext ==
    /\ \A k \in DOMAIN frames : ScheduledAtMax(frames[k], StreamerPredEnd(k))
    /\ \A k \in DOMAIN ctlFrames : ScheduledAtMax(ctlFrames[k], ControllerPredEnd(k))

\* A frame of the controller came after its predecessor had finished, and
\* the frame after it started right at its end.
C26_Witness ==
    /\ Len(ctlFrames) >= 3
    /\ ctlFrames[2].at > ControllerPredEnd(2)
    /\ ctlFrames[2].start = ctlFrames[2].at
    /\ ctlFrames[3].at < ControllerPredEnd(3)
    /\ ctlFrames[3].start = ctlFrames[2].at + ctlFrames[2].dur

\* Calls of addPCMChunk schedule their frames in this step.
Enqueued == Len(frames') > Len(frames)

\* stop() runs in this step.
Stopped == scheduledSources' = <<>> /\ stopAt' = clock /\ nextStartTime' = 0

\* What frame k, scheduled in this step, found in nextStartTime.
FoundNextStartTime(k) ==
    IF k = Len(frames) + 1 THEN nextStartTime
    ELSE frames'[k - 1].start + frames'[k - 1].dur

\* C27: nextStartTime changes only in a step that schedules frames or
\* stops; a call that schedules a frame reads nextStartTime and the clock,
\* starts the frame at the later of the two and writes the frame's end to
\* nextStartTime with nothing in between: calls that were pending together
\* each find what the call before them wrote.
C27_Step ==
    /\ nextStartTime' # nextStartTime => (Enqueued \/ Stopped)
    /\ Enqueued =>
          /\ \A k \in (Len(frames) + 1)..Len(frames') :
                /\ frames'[k].at = clock
                /\ frames'[k].start = Max(clock, FoundNextStartTime(k))
          /\ nextStartTime' = frames'[Len(frames')].start + frames'[Len(frames')].dur
          /\ ~Stopped

C27_ReadModifyWriteIsOneStep == [][C27_Step]_vars

\* Two calls of addPCMChunk waited for resume() together and the second
\* frame starts at the end of the first; a stop() came later.
C27_Witness ==
    /\ Len(frames) >= 2
    /\ frames[1].waited /\ frames[2].waited
    /\ frames[2].start = frames[1].start + frames[1].dur
    /\ frames[2].halted
    /\ nextStartTime = 0

\* No stop() came between the scheduling of frames i and j, i < j.
NoStopBetween(i, j) == \A k \in (i + 1)..j : ~frames[k].first

\* Frames i and j hold payloads of the same session.
SameSession(i, j) ==
    \E id \in SessionIds : frames[i].rx \in sess[id].rxs /\ frames[j].rx \in sess[id].rxs

\* C28: of two audio payloads of one session, the one received earlier is
\* scheduled with the earlier start time.
C28_EarlierReceivedStartsEarlier ==
    \A i, j \in DOMAIN frames :
        (SameSession(i, j) /\ frames[i].rx < frames[j].rx) =>
            frames[i].start < frames[j].start

\* What holds of it: the frames are scheduled in the order in which their
\* payloads were received, also when calls of addPCMChunk waited for
\* resume(), and with no stop() between them the earlier one has the
\* earlier start time.
C28_InOrderBetweenStops ==
    \A i, j \in DOMAIN frames :
        i < j =>
            /\ frames[i].rx < frames[j].rx
            /\ NoStopBetween(i, j) => frames[i].start < frames[j].start

(***************************************************************************)
(* Properties of the outbound relay                                        *)
(***************************************************************************)
\* The entries that the step adds to sent.
NewlySent == (Len(sent) + 1)..Len(sent')

\* A send of the step threw in the session object.
FailedSendStep == \E m \in NewlySent : sent'[m].outcome = "throw"

\* The next buffer of recorder r, and the next snapshot, would be relayed.
AudioReady(r) == Capturing(rcd[r]) /\ RelayOpen
VideoReady == connected /\ RelayOpen

C29_Step ==
    FailedSendStep =>
        /\ connected => connected'
        /\ sessionRef' = sessionRef
        /\ recorderRef' = recorderRef
        /\ \A r \in SessionIds : Capturing(rcd[r]) => Capturing(rcd'[r])
        /\ \A r \in SessionIds : AudioReady(r) => AudioReady(r)'
        /\ VideoReady => VideoReady'

\* C29: a step in which a send of an audio frame, a video frame or a tool
\* response throws leaves the bridge as it was: it stays connected, the
\* session and the recorder stay referenced, every recorder that captures
\* keeps capturing, and the frames that would have been relayed before the
\* failure are still relayed after it.
C29_FailedSendIsNotFatal == [][C29_Step]_vars

\* A frame whose send threw is followed by a frame of the same medium, sent
\* to the same session, that went through, and a tool response failed too;
\* the bridge is still connected to that session.
C29_Witness ==
    /\ \E m, n \in DOMAIN sent :
          /\ m < n
          /\ sent[m].kind # "toolResponse" /\ sent[n].kind = sent[m].kind
          /\ sent[m].outcome = "throw" /\ sent[n].outcome = "ok"
          /\ sent[n].to = sent[m].to /\ sessionRef = sent[m].to
    /\ \E m \in DOMAIN sent : sent[m].kind = "toolResponse" /\ sent[m].outcome = "throw"
    /\ connected

\* The media frames that the step sends to a session.
FramesSentInStep == {m \in NewlySent : sent'[m].kind # "toolResponse"}

C30_Step ==
    \A m \in FramesSentInStep :
        /\ sess'[sent'[m].to].state = "open"
        /\ connected'
        /\ sessionRef' = sent'[m].to

\* C30: an audio or video frame is sent to a session only after its open
\* event, while the bridge is connected and that session is the one the
\* bridge holds: none goes to a session that the bridge has left by
\* disconnect, close or error.
C30_FramesOnlyWhileConnected == [][C30_Step]_vars

(***************************************************************************)
(* Properties of the silence-polling loops across capture sessions         *)
(***************************************************************************)
\* The polling loops that have a frame callback requested.
LoopsAlive == {k \in StartIds : rec[k].loop = "scheduled"}

\* C31: at most one silence-polling loop of the VoiceRecorder is alive at
\* any time, over every sequence of start() and stop() calls: the loop that
\* an earlier capture session began is no longer scheduled once a later
\* session has begun its own.
C31_AtMostOneLoopAlive == Cardinality(LoopsAlive) <= 1

\* The captures whose recorder has processed its stop event.
ClipBuilt == {k \in StartIds : rec[k].stopEv \in {"reading", "delivered"}}

\* C32: the clip of a capture session is made of exactly the data recorded
\* during that session and is given to the completion callback once its
\* reading ends; a start() of the next session before the stop event of the
\* previous recorder neither drops nor mixes data between the sessions, and
\* the cleanup of the previous session leaves the stream of a session that
\* is recording live.
C32_ClipIsOwnChunks ==
    /\ \A k \in ClipBuilt : rec[k].blob = <<k>>
    /\ \A k \in StartIds : \A i \in DOMAIN rec[k].given : rec[k].given[i].base64 = <<k>>
    /\ \A k \in StartIds : rec[k].mr = "recording" => rec[k].streamLive

(***************************************************************************)
(* Properties of capture-open failures                                     *)
(***************************************************************************)
\* The start() call that the open event of the current session made on the
\* current recorder ended with the microphone denied.
CaptureDenied ==
    /\ sessionRef # 0
    /\ recorderRef # 0
    /\ rcd[recorderRef].co[sessionRef] = "denied"

\* A start() call of the buffered-turn recorder fails in the step.
BufferedStartFails == \E k \in StartIds : rec[k].pc # "failed" /\ rec'[k].pc = "failed"

\* C33: a capture-open failure is an explicit failure in both capture
\* modes: once the microphone was denied to the recorder of the current
\* duplex session the bridge does not go on reporting connected with no
\* capture running, and a buffered-turn start() that fails resets the
\* recording state.
C33_CaptureFailureIsReported ==
    /\ [](CaptureDenied /\ (\A r \in SessionIds : ~Capturing(rcd[r])) => ~connected)
    /\ [][BufferedStartFails => ~isRecording']_vars

\* The buffered-turn half of C33 alone.
C33_BufferedFailureResets == [][BufferedStartFails => ~isRecording']_vars

(***************************************************************************)
(* Properties of superseded sessions                                       *)
(***************************************************************************)
\* An open, close or error event of session id happens in the step while
\* the bridge holds another, newer session.
StaleEvent(id) ==
    /\ sessionRef # 0
    /\ id < sessionRef
    /\ hist'.later
    /\ \/ sess'[id].state # sess[id].state
       \/ sess'[id].erred # sess[id].erred

\* C34: an open, close or error event of a session that is no longer the
\* current one leaves the newer session alone: the session handle, the
\* reported connected flag, the recorder handle and the recorder of the
\* newer session are as before.
C34_StaleEventsAreIgnored ==
    [][\A id \in SessionIds :
          StaleEvent(id) => /\ sessionRef' = sessionRef
                            /\ connected' = connected
                            /\ recorderRef' = recorderRef
                            /\ rcd'[recorderRef] = rcd[recorderRef]]_vars

(***************************************************************************)
(* Properties of the session a tool result goes to                         *)
(***************************************************************************)
\* The handlers that ran to their end with at least one result collected.
HandlersWithResults ==
    {n \in HandlerIds : handlers[n].pc = "done" /\ Len(handlers[n].responses) > 0}

\* The tool responses sent for the request of handler n.
ResponsesOf(n) == {m \in DOMAIN sent : sent[m].kind = "toolResponse" /\ sent[m].from = n}

\* C35: the results of a tool call are sent on the session that issued the
\* call, also when a disconnect or a reconnect happens while a registered
\* action is awaited: they are neither dropped nor given to another session.
C35_ResultOnIssuingSession ==
    \A n \in HandlersWithResults :
        /\ ResponsesOf(n) # {}
        /\ \A m \in ResponsesOf(n) : sent[m].to = handlers[n].sess

(***************************************************************************)
(* Properties of the streamer's pending calls                              *)
(***************************************************************************)
\* C36: no chunk that was passed to addPCMChunk before a stop() of the
\* streamer is started after it: a call that was waiting in resume() when
\* stop() ran schedules nothing when it goes on.
C36_NoStartAfterStop == \A k \in DOMAIN frames : ~frames[k].stopped

(***************************************************************************)
(* Properties of a recorder stopped while it starts                        *)
(***************************************************************************)
\* start() call k of recorder x was suspended when stop() ran and has gone
\* on since.
ResumedAfterStop(x, k) == k \in x.cancelled /\ k \notin Suspended(x)

\* C37: a start() call of an AudioRecorder that was suspended, loading the
\* worklet module or awaiting the microphone, when stop() was called keeps
\* nothing once it has resumed: the microphone stream it obtained is
\* stopped, no worklet node of it is connected, and the audio-data callback
\* is never invoked through it.
C37_StoppedStartKeepsNothing ==
    \A r, k \in SessionIds :
        ResumedAfterStop(rcd[r], k) =>
            /\ k \notin rcd[r].liveMics
            /\ k \notin rcd[r].connectedNodes
            /\ \A g \in rcd[r].graphs : g.co # k

(***************************************************************************)
(* Properties of inbound payloads that cannot be decoded                   *)
(***************************************************************************)
\* An addPCMChunk call ends in the step with its promise rejected.
RejectedStep == rejected' > rejected

\* The calls that go on in the step after waiting in resume().
GoingOn == IF resuming # <<>> /\ resuming' = <<>> THEN resuming ELSE <<>>

\* Those of the calls cs whose payload has a decoding.
Decoded(cs) == SelectSeq(cs, LAMBDA c : c.dur # Undecodable)

\* The scheduler fields of st.
SchedulerOf(st) == <<st.frames, st.nextStartTime, st.scheduledSources>>

\* A step that rejects a call leaves the scheduler as the decodable calls
\* that go on with it make it, untouched when there are none, and leaves
\* the bridge connected to its session.
C38_RejectLeavesScheduler ==
    RejectedStep =>
        /\ SchedulerOf([frames |-> frames', nextStartTime |-> nextStartTime',
                        scheduledSources |-> scheduledSources'])
             = SchedulerOf(ScheduledAll(StreamerNow, Decoded(GoingOn)))
        /\ GoingOn = <<>> =>
              /\ frames' = frames
              /\ nextStartTime' = nextStartTime
              /\ scheduledSources' = scheduledSources
        /\ connected' = connected
        /\ sessionRef' = sessionRef
        /\ \A id \in SessionIds : sess'[id].state = sess[id].state

\* A decodable payload that comes after a rejected one and does not wait is
\* scheduled as any other: at the later of the clock and nextStartTime.
C38_LaterPayloadScheduled ==
    (rejected > 0 /\ rejected' = rejected /\ Len(frames') = Len(frames) + 1) =>
        /\ frames'[Len(frames')].start = Max(clock, nextStartTime)
        /\ nextStartTime' = frames'[Len(frames')].start + frames'[Len(frames')].dur

\* C38: an inbound audio payload that cannot be decoded schedules nothing:
\* no source is ever started for it, the step that rejects it leaves
\* nextStartTime and the scheduled frames as they were, the session stays
\* connected, and the valid payloads that follow are scheduled as usual.
C38_UndecodableSchedulesNothing ==
    /\ [](\A k \in DOMAIN frames : frames[k].dur # Undecodable)
    /\ [][C38_RejectLeavesScheduler /\ C38_LaterPayloadScheduled]_vars

\* A valid payload was scheduled, then one was rejected, then another valid
\* one was scheduled right behind the first, with the session connected.
C38_Witness ==
    /\ rejected = 1
    /\ Len(frames) = 2
    /\ frames[1].rx = 1 /\ frames[2].rx = 3
    /\ frames[2].start = frames[1].start + frames[1].dur
    /\ connected /\ sessionRef # 0

(***************************************************************************)
(* Properties of a response stream started with the voice off              *)
(***************************************************************************)
\* The streams that were called while the voice flag was off.
CalledVoiceOff == {s \in StreamIds : stream[s].phase # "idle" /\ ~stream[s].captured}

\* A stream is called in the step while the voice flag is off.
StartsVoiceOff == nStreams' = nStreams + 1 /\ ~isTTSEnabled

C39_State ==
    \A s \in CalledVoiceOff :
        /\ links[s] = <<>>
        /\ \A h \in DOMAIN handed : handed[h].s # s
        /\ \A p \in DOMAIN playing : playing[p][1] # s
        /\ stream[s].shown = Concat(stream[s].got)
        /\ stream[s].phase = "returned" => stream[s].result = Concat(stream[s].got)

\* C39: a stream called while the voice flag is off issues no synthesis
\* request and hands no audio to the player for any unit, whatever the flag
\* does later; the call does not stop the player; every chunk read is shown
\* on the display with all the text so far, and the stream returns the full
\* text.
C39_VoiceOffStreamIsSilent ==
    /\ []C39_State
    /\ [][StartsVoiceOff => playing' = playing]_vars

\* A stream called with the voice off has returned text in two chunks, the
\* flag is on again, and the player still holds audio of the stream before.
C39_Witness ==
    \E s \in CalledVoiceOff :
        /\ stream[s].phase = "returned"
        /\ Len(stream[s].got) >= 2
        /\ stream[s].result # <<>>
        /\ isTTSEnabled
        /\ playing # <<>>

====
